---- MODULE Spec2Model ----
(***************************************************************************)
(* Creative generation orchestrator of the ad generator (App component,   *)
(* AdDisplay controls, local-storage and import/export of the session).   *)
(*                                                                         *)
(* State: the React state of App (adCreatives, flags, error, form state),  *)
(* the remote calls in flight (planning calls and image calls, each with   *)
(* the values its closure captured), the local-storage snapshot and the    *)
(* exported file.  One action per handler / per settlement of a call; the  *)
(* guards of the user actions are the conditions under which AdDisplay /   *)
(* App render the control enabled, conjoined with the handler's own early  *)
(* returns.                                                                *)
(***************************************************************************)
EXTENDS Integers, Sequences, FiniteSets, TLC

\* ---------------------------------------------------------------- bounds
MaxCalls == 4        \* image calls (preview / full / edit) issued in one behaviour
MaxPlans == 2        \* planning calls issued in one behaviour
MaxConcepts == 2     \* concepts returned by one planning call
MaxRatios == 2       \* ratios requested for one batch
MaxSessionOps == 1   \* go back / clear / reload steps in one behaviour
MaxFileOps == 2      \* session-level steps in one behaviour with files (SpecFiles)
MaxFileCalls == 3    \* image calls issued in one behaviour with files (SpecFiles)
MaxFilePlans == 1    \* planning calls issued in one behaviour with files (SpecFiles)
MaxTurns == 2        \* user messages sent to the assistant in one behaviour
MaxIterations == 2   \* iterations of the tool-call loop the model follows per turn
MaxCallsPerResponse == 1  \* function calls in one response of the assistant
MaxNamed == 1        \* fields named by one update_form_fields call
MaxEdits == 1        \* fields the user types before opening the assistant
MaxLooseConcepts == 2 \* concepts of a response that does not follow the schema
MaxLiveCalls == 3     \* image calls issued in one behaviour under fairness (SpecLive)
MaxLivePlans == 1     \* planning calls issued in one behaviour under fairness (SpecLive)

\* ------------------------------------------------------------- constants
\* useState default of aspectRatios
DefaultAspectRatios == <<"1:1", "16:9", "3:4">>
\* aspectRatios after handleClearSession, and the import fallback
ClearedAspectRatios == <<"9:16", "1:1">>
\* ratio buttons of the form that the model toggles
ToggleChoices == {"3:4"}
\* useState default of objective
DefaultObjective == <<"Aumentar ventas">>
\* a URL inside the context, as one character of the text
UrlText == <<"https://u">>
\* what FillBrief types into the mandatory fields
FilledText == <<"a">>
\* the text summarizeUrlContent returns when its call fails
SummaryPlaceholder == <<"Error al procesar el contenido de las URLs.">>
\* texts a successful summary call may return (response.text), before trim
SummaryTexts == {<<>>, <<"s", " ">>}
\* cost of one draft image and of one full-quality image, in cents
PreviewCost == 1
FullCost == 14
\* url of the single embedded image of a legacy snapshot
LegacyUrl == 0
\* a prompt written by the planner, and the prompt of a variant that never had one
PlannedPrompt == <<"p">>
UndefinedPrompt == <<>>

VARIABLES
    adCreatives,          \* AdCreative[] (<<>> while adCreativesNull)
    adCreativesNull,      \* adCreatives === null
    isGeneratingInitial,
    isGeneratingMore,
    error,                \* "null" or the kind of message recorded
    aspectRatios,         \* form state: requested ratios, in order
    briefOk,              \* audienceAction.trim() && keyMessage.trim()
    clock,                \* last value read from Date.now()
    plans,                \* planning calls in flight
    calls,                \* image calls in flight
    nextCall,             \* number of image calls issued so far
    nextPlan,             \* number of planning calls issued so far
    localStorage,         \* <<>> or <<snapshot>> under LOCAL_STORAGE_KEY
    exportFiles,          \* the files handleExport wrote, oldest first
    nSessionOps,          \* number of session-level steps taken so far
    crashed,              \* an updater threw while rendering: the tree is unmounted
    issued,               \* history: (id, ratio) pairs a call was ever issued for
    requested,            \* history: id -> ratios requested when it was created
    settled,              \* history: the calls that settled, with their outcome
    objective,            \* text fields of the brief
    audienceAction,
    keyMessage,
    context,
    showInteractiveMode,  \* the assistant is mounted
    messages,             \* roles of the chat messages shown
    inputValue,           \* text of the chat box
    isTyping,
    turns,                \* runs of initChat / handleSendMessage awaiting the backend
    nextTurn,             \* number of user messages sent so far
    nEdits,               \* number of fields typed so far
    applied,              \* history: the fields named by the last response the loop handled
    totalCost,            \* in cents
    urlSummaryForDisplay, \* <<>> (null) or <<text>>
    docRead               \* history: the document the step into this state read, if any

vars == <<adCreatives, adCreativesNull, isGeneratingInitial, isGeneratingMore,
          error, aspectRatios, briefOk, clock, plans, calls, nextCall, nextPlan,
          localStorage, exportFiles, nSessionOps, crashed, issued, requested,
          settled, objective, audienceAction, keyMessage, context,
          showInteractiveMode, messages, inputValue, isTyping, turns, nextTurn,
          nEdits, applied, totalCost, urlSummaryForDisplay, docRead>>

\* ---------------------------------------------------------------- helpers
Range(s) == {s[i] : i \in 1..Len(s)}

Min(a, b) == IF a < b THEN a ELSE b
Max(a, b) == IF a > b THEN a ELSE b

SeqFilter(s, Keep(_)) ==
    LET F[i \in 0..Len(s)] ==
            IF i = 0 THEN <<>>
            ELSE IF Keep(s[i]) THEN Append(F[i - 1], s[i]) ELSE F[i - 1]
    IN F[Len(s)]

\* prev.map(c => c.id === id ? F(c) : c)
MapCreative(prev, id, F(_)) ==
    [i \in 1..Len(prev) |-> IF prev[i].id = id THEN F(prev[i]) ELSE prev[i]]

\* adCreatives?.find(c => c.id === id) is defined
HasCreative(id) ==
    /\ ~adCreativesNull
    /\ \E i \in 1..Len(adCreatives) : adCreatives[i].id = id

FindCreative(id) ==
    adCreatives[CHOOSE i \in 1..Len(adCreatives) :
                    /\ adCreatives[i].id = id
                    /\ \A j \in 1..(i - 1) : adCreatives[j].id # id]

Ids == IF adCreativesNull THEN {} ELSE {adCreatives[i].id : i \in 1..Len(adCreatives)}

\* history[currentHistoryIndex] is defined (JavaScript 0-based indexing)
HasCurrentImage(v) ==
    v.currentHistoryIndex >= 0 /\ v.currentHistoryIndex < Len(v.history)

\* the value c.variants[ratio] spreads to when the key is absent
UndefinedVariant ==
    [history |-> <<>>, currentHistoryIndex |-> -1, isGenerating |-> FALSE,
     imagePrompt |-> UndefinedPrompt]

\* mutant of WithVariant: the new value is written under every key
WithVariant_EveryKey(variants, ratio, v) ==
    [k \in (DOMAIN variants) \cup {ratio} |-> v]

\* { ...c.variants, [ratio]: v }
WithVariant(variants, ratio, v) ==
    [k \in (DOMAIN variants) \cup {ratio} |-> IF k = ratio THEN v ELSE variants[k]]

VariantOf(c, ratio) ==
    IF ratio \in DOMAIN c.variants THEN c.variants[ratio] ELSE UndefinedVariant

\* ------------------------------------------------------- variant updates
\* mutant of ClearBusy: the failure branch forgets to clear the flag
ClearBusy_KeepsFlag(c, ratio) == c

\* mutant of ClearBusy: the failure branch also resets the history
ClearBusy_ResetsHistory(c, ratio) ==
    [c EXCEPT !.variants =
        WithVariant(c.variants, ratio,
                    [VariantOf(c, ratio) EXCEPT !.history = <<>>,
                                                !.currentHistoryIndex = -1,
                                                !.isGenerating = FALSE])]

\* { ...c.variants[ratio], isGenerating: false }  (every failure branch)
ClearBusy(c, ratio) ==
    [c EXCEPT !.variants =
        WithVariant(c.variants, ratio,
                    [VariantOf(c, ratio) EXCEPT !.isGenerating = FALSE])]

\* mutant of AppendImage: the update spreads a stale variants map, so the
\* other variants fall back to what they were before any result was applied
AppendImage_StaleSiblings(c, ratio, url) ==
    LET v == VariantOf(c, ratio) IN
    [c EXCEPT !.variants =
        [k \in (DOMAIN c.variants) \cup {ratio} |->
            IF k = ratio
            THEN [v EXCEPT !.history = Append(v.history, [url |-> url, isPreview |-> FALSE]),
                           !.currentHistoryIndex = Len(v.history),
                           !.isGenerating = FALSE]
            ELSE [c.variants[k] EXCEPT !.history = <<>>, !.currentHistoryIndex = -1]]]

\* mutant of AppendImage: an image generated for a creative that is still a
\* draft is flagged as a draft itself
AppendImage_DraftFlag(c, ratio, url) ==
    LET v == VariantOf(c, ratio) IN
    [c EXCEPT !.variants =
        WithVariant(c.variants, ratio,
                    [v EXCEPT !.history = Append(v.history,
                                                 [url |-> url,
                                                  isPreview |-> (c.status = "preview_ready")]),
                              !.currentHistoryIndex = Len(v.history),
                              !.isGenerating = FALSE])]

\* mutant of AppendImage: the newest entry is overwritten in place
AppendImage_Overwrites(c, ratio, url) ==
    LET v == VariantOf(c, ratio)
        image == [url |-> url, isPreview |-> FALSE]
    IN
    [c EXCEPT !.variants =
        WithVariant(c.variants, ratio,
                    [v EXCEPT !.history = IF Len(v.history) = 0 THEN <<image>>
                                          ELSE [v.history EXCEPT ![Len(v.history)] = image],
                              !.currentHistoryIndex = Max(0, Len(v.history) - 1),
                              !.isGenerating = FALSE])]

\* mutant of AppendImage: the new image is put in front of the older ones
AppendImage_Prepends(c, ratio, url) ==
    LET v == VariantOf(c, ratio) IN
    [c EXCEPT !.variants =
        WithVariant(c.variants, ratio,
                    [v EXCEPT !.history = <<[url |-> url, isPreview |-> FALSE]>> \o v.history,
                              !.currentHistoryIndex = Len(v.history),
                              !.isGenerating = FALSE])]

\* history: [...existingHistory, newImage], currentHistoryIndex: existingHistory.length
AppendImage(c, ratio, url) ==
    LET v == VariantOf(c, ratio) IN
    [c EXCEPT !.variants =
        WithVariant(c.variants, ratio,
                    [v EXCEPT !.history = Append(v.history, [url |-> url, isPreview |-> FALSE]),
                              !.currentHistoryIndex = Len(v.history),
                              !.isGenerating = FALSE])]

\* mutant of ApplyPreview: the status waits for the previews of the siblings
ApplyPreview_WaitsForBatch(c, ratio, url) ==
    [c EXCEPT !.status = IF Cardinality({d \in calls : d.kind \in {"preview", "previewMore"}}) > 1
                         THEN c.status
                         ELSE "preview_ready",
              !.variants =
                  WithVariant(c.variants, ratio,
                              [VariantOf(c, ratio) EXCEPT
                                   !.history = <<[url |-> url, isPreview |-> TRUE]>>,
                                   !.currentHistoryIndex = 0,
                                   !.isGenerating = FALSE])]

\* preview success: status preview_ready, history replaced by the one preview
ApplyPreview(c, ratio, url) ==
    [c EXCEPT !.status = "preview_ready",
              !.variants =
                  WithVariant(c.variants, ratio,
                              [VariantOf(c, ratio) EXCEPT
                                   !.history = <<[url |-> url, isPreview |-> TRUE]>>,
                                   !.currentHistoryIndex = 0,
                                   !.isGenerating = FALSE])]

\* mutant of FailPreview: a failed preview leaves the status as it was
FailPreview_KeepsStatus(c, ratio) == ClearBusy(c, ratio)

\* preview failure: status preview_ready, busy flag cleared
FailPreview(c, ratio) ==
    [ClearBusy(c, ratio) EXCEPT !.status = "preview_ready"]

\* -------------------------------------------------------------- text
\* Text is a sequence of characters; the brief fields hold text.
Whitespace == {" ", "\n"}

\* String.prototype.trim
RECURSIVE TrimStart(_)
TrimStart(s) ==
    IF Len(s) > 0 /\ Head(s) \in Whitespace THEN TrimStart(Tail(s)) ELSE s

RECURSIVE TrimEnd(_)
TrimEnd(s) ==
    IF Len(s) > 0 /\ s[Len(s)] \in Whitespace
    THEN TrimEnd(SubSeq(s, 1, Len(s) - 1))
    ELSE s

Trim(s) == TrimEnd(TrimStart(s))

\* the text fields of the form as one record
FormFields ==
    [objective |-> objective, audienceAction |-> audienceAction,
     keyMessage |-> keyMessage, context |-> context]

\* handleSubmit's test of the mandatory fields
BriefFilled(action, message) == Trim(action) # <<>> /\ Trim(message) # <<>>

\* the brief fields the session handlers leave alone
BriefUntouched == UNCHANGED <<objective, audienceAction, keyMessage, context>>

\* `x || fallback` on a stored text
OrDefault(text, fallback) == IF Len(text) = 0 THEN fallback ELSE text

\* `data.urlSummaryForDisplay || null`: <<>> is null, <<text>> a string
OrNull(summary) == IF summary = <<>> \/ Len(summary[1]) = 0 THEN <<>> ELSE summary

\* urlRegex.test(context): the text holds a URL
HasUrls(text) == \E i \in 1..Len(text) : text[i] = UrlText[1]

\* ----------------------------------------------------- session snapshot
\* JSON.stringify of one creative of the current schema
ToDoc(c) ==
    [id |-> c.id, hasStatus |-> TRUE, status |-> c.status,
     activeVariant |-> c.activeVariant,
     variants |-> [k \in DOMAIN c.variants |->
                      [hasImage |-> FALSE, image |-> LegacyUrl, hasHistory |-> TRUE,
                       history |-> c.variants[k].history,
                       currentHistoryIndex |-> c.variants[k].currentHistoryIndex,
                       isGenerating |-> c.variants[k].isGenerating,
                       imagePrompt |-> c.variants[k].imagePrompt]]]

Snapshot(creatives, ratios, fields, cost, summary) ==
    [missing |-> {},
     adCreatives |-> [i \in 1..Len(creatives) |-> ToDoc(creatives[i])],
     totalCost |-> cost,
     urlSummaryForDisplay |-> summary,
     formState |-> [objective |-> fields.objective,
                    audienceAction |-> fields.audienceAction,
                    keyMessage |-> fields.keyMessage,
                    context |-> fields.context,
                    aspectRatios |-> ratios]]

\* the step reads no document
NothingRead == docRead' = <<>>

\* mutant of Recognised: the test for totalCost is left out
Recognised_IgnoresCost(doc) == doc.missing \subseteq {"totalCost"}

\* JSON.parse succeeds and
\* data.adCreatives && data.formState && typeof data.totalCost !== 'undefined'
Recognised(doc) == doc.missing = {}

\* mutant of MigrateVariant: the migrated image is stored but the cursor is not set
MigrateVariant_NoCursor(v) ==
    IF v.hasImage /\ (~v.hasHistory \/ Len(v.history) = 0)
    THEN [history |-> <<[url |-> v.image, isPreview |-> FALSE]>>,
          currentHistoryIndex |-> -1,
          isGenerating |-> v.isGenerating, imagePrompt |-> v.imagePrompt]
    ELSE [history |-> v.history, currentHistoryIndex |-> v.currentHistoryIndex,
          isGenerating |-> v.isGenerating, imagePrompt |-> v.imagePrompt]

\* migration of one stored variant (load effect and handleImport)
MigrateVariant(v) ==
    IF v.hasImage /\ (~v.hasHistory \/ Len(v.history) = 0)
    THEN [history |-> <<[url |-> v.image, isPreview |-> FALSE]>>,
          currentHistoryIndex |-> 0,
          isGenerating |-> v.isGenerating, imagePrompt |-> v.imagePrompt]
    ELSE IF ~v.hasHistory
    THEN [history |-> <<>>, currentHistoryIndex |-> -1, isGenerating |-> v.isGenerating,
          imagePrompt |-> v.imagePrompt]
    ELSE [history |-> v.history, currentHistoryIndex |-> v.currentHistoryIndex,
          isGenerating |-> v.isGenerating, imagePrompt |-> v.imagePrompt]

\* mutant of MigrateCreative: every restored creative is taken as completed
MigrateCreative_ForcesCompleted(d) ==
    [id |-> d.id,
     status |-> "completed",
     activeVariant |-> d.activeVariant,
     variants |-> [k \in DOMAIN d.variants |-> MigrateVariant(d.variants[k])]]

\* { ...c, variants: migratedVariants, status: c.status || 'completed' }
MigrateCreative(d) ==
    [id |-> d.id,
     status |-> IF d.hasStatus THEN d.status ELSE "completed",
     activeVariant |-> d.activeVariant,
     variants |-> [k \in DOMAIN d.variants |-> MigrateVariant(d.variants[k])]]

MigrateCreatives(doc) ==
    [i \in 1..Len(doc.adCreatives) |-> MigrateCreative(doc.adCreatives[i])]

\* the save effect: runs after every render, writes only a non-empty collection
SaveSession ==
    localStorage' =
        IF ~adCreativesNull' /\ Len(adCreatives') > 0
        THEN <<Snapshot(adCreatives', aspectRatios', FormFields', totalCost',
                        urlSummaryForDisplay')>>
        ELSE localStorage

\* ------------------------------------------------------------------ Init
InitSession ==
    /\ adCreatives = <<>>
    /\ adCreativesNull = TRUE
    /\ isGeneratingInitial = FALSE
    /\ isGeneratingMore = FALSE
    /\ error = "null"
    /\ aspectRatios = DefaultAspectRatios
    /\ briefOk = FALSE
    /\ clock = 0
    /\ plans = {}
    /\ calls = {}
    /\ nextCall = 0
    /\ nextPlan = 0
    /\ exportFiles = <<>>
    /\ nSessionOps = 0
    /\ crashed = FALSE
    /\ issued = {}
    /\ requested = {}
    /\ settled = {}
    /\ objective = DefaultObjective
    /\ audienceAction = <<>>
    /\ keyMessage = <<>>
    /\ context = <<>>
    /\ showInteractiveMode = FALSE
    /\ messages = <<>>
    /\ inputValue = <<>>
    /\ isTyping = FALSE
    /\ turns = {}
    /\ nextTurn = 0
    /\ nEdits = 0
    /\ applied = <<>>
    /\ totalCost = 0
    /\ urlSummaryForDisplay = <<>>
    /\ docRead = <<>>

\* the page is opened with nothing under LOCAL_STORAGE_KEY
Init ==
    /\ InitSession
    /\ localStorage = <<>>

\* ------------------------------------------------------------ form state
\* the user fills in the mandatory brief fields (setAudienceAction, setKeyMessage)
FillBrief ==
    /\ ~crashed
    /\ adCreativesNull
    /\ ~isGeneratingInitial
    /\ ~briefOk
    /\ audienceAction' = FilledText
    /\ keyMessage' = FilledText
    /\ briefOk' = BriefFilled(audienceAction', keyMessage')
    /\ UNCHANGED <<objective, context, totalCost, urlSummaryForDisplay>>
    /\ UNCHANGED <<adCreatives, adCreativesNull, isGeneratingInitial, isGeneratingMore,
                   error, aspectRatios, clock, plans, calls, nextCall, nextPlan,
                   exportFiles, nSessionOps, crashed, issued, requested, settled>>
    /\ NothingRead
    /\ SaveSession

\* toggleAspectRatio of the form
ToggledRatios(ratios, ratio) ==
    IF ratio \in Range(ratios)
    THEN IF Len(ratios) > 1 THEN SeqFilter(ratios, LAMBDA r : r # ratio) ELSE ratios
    ELSE Append(ratios, ratio)

toggleAspectRatio ==
    /\ ~crashed
    /\ adCreativesNull
    /\ \E ratio \in ToggleChoices :
          /\ aspectRatios' = ToggledRatios(aspectRatios, ratio)
          /\ aspectRatios' # aspectRatios
    /\ UNCHANGED <<adCreatives, adCreativesNull, isGeneratingInitial, isGeneratingMore,
                   error, briefOk, clock, plans, calls, nextCall, nextPlan,
                   exportFiles, nSessionOps, crashed, issued, requested, settled>>
    /\ BriefUntouched
    /\ UNCHANGED <<totalCost, urlSummaryForDisplay>>
    /\ NothingRead
    /\ SaveSession

\* ------------------------------------------------- planning and previews
\* `Error: No prompt for ${ratio}`
NoPrompt(ratio) == <<"Error: No prompt for ", ratio>>

\* mutant of PromptFor: a missing prompt is stored as the empty text
PromptFor_Empty(tc, ratio) ==
    IF ratio \in DOMAIN tc.variantPrompts THEN tc.variantPrompts[ratio] ELSE <<>>

\* tc.variantPrompts[ratio] || `Error: No prompt for ${ratio}`
PromptFor(tc, ratio) ==
    IF ratio \in DOMAIN tc.variantPrompts /\ tc.variantPrompts[ratio] # <<>>
    THEN tc.variantPrompts[ratio]
    ELSE NoPrompt(ratio)

\* a concept of the response as responseSchema requires it: a prompt for every ratio
CompleteConcept(ratios) ==
    [hasVariantPrompts |-> TRUE, variantPrompts |-> [r \in Range(ratios) |-> PlannedPrompt]]

\* the responses that follow responseSchema, with n concepts
CompleteResponse(n, ratios) == [i \in 1..n |-> CompleteConcept(ratios)]

\* tc.variantPrompts[ratio] throws for a concept without a variantPrompts object
MapThrows(textCreatives) ==
    \E i \in 1..Len(textCreatives) : ~textCreatives[i].hasVariantPrompts

\* mutant of NewCreative: only the primary ratio gets a variant
NewCreative_PrimaryOnly(tc, t, index, suffix, ratios) ==
    [id |-> <<t, index, suffix>>,
     status |-> "generating_preview",
     activeVariant |-> ratios[1],
     variants |-> [r \in {ratios[1]} |->
                      [history |-> <<>>, currentHistoryIndex |-> -1, isGenerating |-> TRUE,
                       imagePrompt |-> PromptFor(tc, r)]]]

\* mutant of NewCreative: every variant starts as generating, as in the legacy app
NewCreative_AllBusy(tc, t, index, suffix, ratios) ==
    [id |-> <<t, index, suffix>>,
     status |-> "generating_preview",
     activeVariant |-> ratios[1],
     variants |-> [r \in Range(ratios) |->
                      [history |-> <<>>, currentHistoryIndex |-> -1, isGenerating |-> TRUE,
                       imagePrompt |-> PromptFor(tc, r)]]]

\* mutant of NewCreative: the id is the index in the batch alone
NewCreative_IndexId(tc, t, index, suffix, ratios) ==
    [id |-> <<0, index, "">>,
     status |-> "generating_preview",
     activeVariant |-> ratios[1],
     variants |-> [r \in Range(ratios) |->
                      [history |-> <<>>,
                       currentHistoryIndex |-> -1,
                       isGenerating |-> (r = ratios[1]),
                       imagePrompt |-> PromptFor(tc, r)]]]

\* one creative of initialCreatives / newCreatives
NewCreative(tc, t, index, suffix, ratios) ==
    [id |-> <<t, index, suffix>>,
     status |-> "generating_preview",
     activeVariant |-> ratios[1],
     variants |-> [r \in Range(ratios) |->
                      [history |-> <<>>,
                       currentHistoryIndex |-> -1,
                       isGenerating |-> (r = ratios[1]),
                       imagePrompt |-> PromptFor(tc, r)]]]

\* textCreatives.map((tc, index) => ...)
NewCreatives(textCreatives, t, suffix, ratios) ==
    [i \in 1..Len(textCreatives) |-> NewCreative(textCreatives[i], t, i - 1, suffix, ratios)]

\* mutant of PreviewCall: the preview is requested for another ratio of the creative
PreviewCall_OtherRatio(kind, first, i, c, ratio, group) ==
    [tok |-> first + i, kind |-> kind, id |-> c.id,
     ratio |-> IF DOMAIN c.variants = {ratio} THEN ratio
               ELSE CHOOSE k \in DOMAIN c.variants : k # ratio,
     group |-> group]

\* the preview call issued for the i-th creative of a batch
PreviewCall(kind, first, i, c, ratio, group) ==
    [tok |-> first + i, kind |-> kind, id |-> c.id, ratio |-> ratio, group |-> group]

\* handleGenerateIdeas up to its first remote call: summarizeUrlContent when the
\* context holds a URL, the planning call otherwise (submit button of CampaignInput)
handleGenerateIdeas ==
    /\ ~crashed
    /\ adCreativesNull
    /\ ~isGeneratingInitial
    /\ briefOk
    /\ Len(aspectRatios) > 0
    /\ Len(aspectRatios) <= MaxRatios
    /\ nextPlan < MaxPlans
    /\ isGeneratingInitial' = TRUE
    /\ error' = "null"
    /\ adCreativesNull' = TRUE
    /\ adCreatives' = <<>>
    /\ nextPlan' = nextPlan + 1
    /\ plans' = plans \cup {[pid |-> nextPlan + 1, kind |-> "initial",
                             ratios |-> aspectRatios,
                             stage |-> IF HasUrls(context) THEN "summary" ELSE "planning",
                             context |-> context]}
    /\ UNCHANGED <<isGeneratingMore, aspectRatios, briefOk, clock, calls, nextCall,
                   exportFiles, nSessionOps, crashed, issued, requested, settled>>
    /\ urlSummaryForDisplay' = <<>>
    /\ BriefUntouched
    /\ UNCHANGED totalCost
    /\ NothingRead
    /\ SaveSession

\* what summarizeUrlContent returns: "" for a blank text, the trimmed text of
\* the response, or the placeholder when the call fails
summarizeUrlContent(contextWithUrls, ok, text) ==
    IF Trim(contextWithUrls) = <<>>
    THEN <<>>
    ELSE IF ok THEN Trim(text) ELSE SummaryPlaceholder

\* mutant of AfterSummary: a failed summary ends the generation
AfterSummary_Aborts(p, ok) ==
    IF ok THEN {[p EXCEPT !.stage = "planning"]} ELSE {}

\* handleGenerateIdeas goes on to generateAdCreatives whatever the summary was
AfterSummary(p, ok) == {[p EXCEPT !.stage = "planning"]}

\* the summary call has settled: the summary is shown and the planning call issued
SummarySettles(p, ok, text) ==
    /\ urlSummaryForDisplay' = <<summarizeUrlContent(p.context, ok, text)>>
    /\ plans' = (plans \ {p}) \cup AfterSummary(p, ok)
    /\ UNCHANGED <<adCreatives, adCreativesNull, isGeneratingInitial, isGeneratingMore,
                   error, aspectRatios, briefOk, clock, calls, nextCall, nextPlan,
                   exportFiles, nSessionOps, crashed, issued, requested, settled,
                   totalCost>>
    /\ BriefUntouched
    /\ NothingRead
    /\ SaveSession

\* generateContent of summarizeUrlContent resolves
SummaryResolves ==
    /\ ~crashed
    /\ \E p \in plans, text \in SummaryTexts :
          /\ p.stage = "summary"
          /\ SummarySettles(p, TRUE, text)

\* generateContent of summarizeUrlContent rejects
SummaryRejects ==
    /\ ~crashed
    /\ \E p \in plans :
          /\ p.stage = "summary"
          /\ SummarySettles(p, FALSE, <<>>)

\* mutant of AppendCreatives: the new batch replaces the collection
AppendCreatives_Replaces(prev, fresh) == fresh

\* [...prev, ...newCreatives]
AppendCreatives(prev, fresh) == prev \o fresh

\* handleGenerateMore up to its planning call ("Generar Mas" button)
handleGenerateMore ==
    /\ ~crashed
    /\ ~adCreativesNull
    /\ ~isGeneratingMore
    /\ briefOk
    /\ Len(aspectRatios) > 0
    /\ Len(aspectRatios) <= MaxRatios
    /\ nextPlan < MaxPlans
    /\ isGeneratingMore' = TRUE
    /\ error' = "null"
    /\ nextPlan' = nextPlan + 1
    /\ plans' = plans \cup {[pid |-> nextPlan + 1, kind |-> "more",
                             ratios |-> aspectRatios, stage |-> "planning",
                             context |-> context]}
    /\ UNCHANGED <<adCreatives, adCreativesNull, isGeneratingInitial, aspectRatios,
                   briefOk, clock, calls, nextCall, exportFiles, nSessionOps,
                   crashed, issued, requested, settled>>
    /\ BriefUntouched
    /\ UNCHANGED <<totalCost, urlSummaryForDisplay>>
    /\ NothingRead
    /\ SaveSession

\* mutant of PlanningFailureError: the catch block only logs the failure
PlanningFailureError_Swallowed(previous) == previous

\* setError(formatError(e)) in the catch block around a planning call
PlanningFailureError(previous) == "api"

\* the catch block (and finally block) of the handler that issued the planning call
PlanningFails(p) ==
    /\ plans' = plans \ {p}
    /\ error' = PlanningFailureError(error)
    /\ isGeneratingInitial' = IF p.kind = "initial" THEN FALSE
                              ELSE isGeneratingInitial
    /\ isGeneratingMore' = IF p.kind = "more" THEN FALSE ELSE isGeneratingMore
    /\ UNCHANGED <<adCreatives, adCreativesNull, aspectRatios, briefOk, clock, calls,
                   nextCall, nextPlan, exportFiles, nSessionOps, crashed,
                   issued, requested, settled>>
    /\ BriefUntouched
    /\ UNCHANGED <<totalCost, urlSummaryForDisplay>>
    /\ SaveSession

\* generateAdCreatives has resolved with textCreatives: the creatives are built
\* and one preview call per creative is issued for the primary ratio, unless
\* building them throws into the catch block
PlanningSettles(p, textCreatives) ==
    LET t == clock + 1
        n == Len(textCreatives)
        suffix == IF p.kind = "initial" THEN "" ELSE "added"
        fresh == NewCreatives(textCreatives, t, suffix, p.ratios)
        primaryRatio == p.ratios[1]
        kind == IF p.kind = "initial" THEN "preview" ELSE "previewMore"
    IN
    /\ p.stage = "planning"
    /\ nextCall + n <= MaxCalls
    /\ docRead' = <<[doc |-> textCreatives, by |-> "planning", ratios |-> p.ratios]>>
    /\ IF MapThrows(textCreatives)
       THEN PlanningFails(p)
       ELSE /\ clock' = t
            /\ plans' = plans \ {p}
            /\ adCreativesNull' = FALSE
            /\ adCreatives' = IF p.kind = "initial" \/ adCreativesNull
                              THEN fresh
                              ELSE AppendCreatives(adCreatives, fresh)
            /\ isGeneratingInitial' = IF p.kind = "initial" THEN FALSE
                                      ELSE isGeneratingInitial
            /\ calls' = calls \cup {PreviewCall(kind, nextCall, i, fresh[i], primaryRatio, p.pid)
                                      : i \in 1..n}
            /\ nextCall' = nextCall + n
            /\ issued' = issued \cup {<<fresh[i].id, primaryRatio>> : i \in 1..n}
            /\ requested' = requested \cup {<<fresh[i].id, Range(p.ratios)>> : i \in 1..n}
            /\ UNCHANGED <<isGeneratingMore, error, aspectRatios, briefOk, nextPlan,
                           exportFiles, nSessionOps, crashed, settled>>
            /\ BriefUntouched
            /\ UNCHANGED <<totalCost, urlSummaryForDisplay>>
            /\ SaveSession

\* generateAdCreatives resolves with n concepts that follow responseSchema
PlanningResolves ==
    /\ ~crashed
    /\ \E p \in plans, n \in 1..MaxConcepts :
          PlanningSettles(p, CompleteResponse(n, p.ratios))

\* what a concept of a response may carry for the requested ratios: no
\* variantPrompts object, or one with a prompt, an empty prompt or no key per ratio
ConceptShapes(ratios) ==
    {[hasVariantPrompts |-> FALSE, variantPrompts |-> <<>>]}
    \cup {[hasVariantPrompts |-> TRUE, variantPrompts |-> prompts] :
             prompts \in UNION {[keys -> {PlannedPrompt, <<>>}] : keys \in SUBSET Range(ratios)}}

\* generateAdCreatives resolves with a response that does not follow
\* responseSchema (JSON.parse checks nothing)
PlanningResolvesLoosely ==
    /\ ~crashed
    /\ \E p \in plans, n \in 1..MaxLooseConcepts :
          \E textCreatives \in [1..n -> ConceptShapes(p.ratios)] :
              /\ textCreatives # CompleteResponse(n, p.ratios)
              /\ PlanningSettles(p, textCreatives)

\* generateAdCreatives rejects: the catch block of the handler that issued it
PlanningRejects ==
    /\ ~crashed
    /\ \E p \in plans :
          /\ p.stage = "planning"
          /\ PlanningFails(p)
          /\ NothingRead

\* the record of a settled call: its outcome, whether its creative was in the
\* collection when it settled, and how many calls of its batch were still pending
Settled(c, ok) ==
    [tok |-> c.tok, kind |-> c.kind, id |-> c.id, ratio |-> c.ratio, group |-> c.group,
     ok |-> ok,
     present |-> HasCreative(c.id),
     pending |-> Cardinality({d \in calls \ {c} : d.kind = c.kind /\ d.group = c.group})]

\* the finally block of handleGenerateMore runs when the last preview of its
\* batch has settled (Promise.all)
MoreFlagAfter(c) ==
    IF c.kind = "previewMore" /\ ~\E d \in calls \ {c} : d.kind = c.kind /\ d.group = c.group
    THEN FALSE
    ELSE isGeneratingMore

\* generatePreviewImage resolves
PreviewResolves ==
    /\ ~crashed
    /\ \E c \in calls :
          /\ c.kind \in {"preview", "previewMore"}
          /\ calls' = calls \ {c}
          /\ settled' = settled \cup {Settled(c, TRUE)}
          /\ adCreatives' =
                IF adCreativesNull THEN adCreatives
                ELSE MapCreative(adCreatives, c.id, LAMBDA x : ApplyPreview(x, c.ratio, c.tok))
          /\ isGeneratingMore' = MoreFlagAfter(c)
    /\ UNCHANGED <<adCreativesNull, isGeneratingInitial, error, aspectRatios, briefOk,
                   clock, plans, nextCall, nextPlan, exportFiles, nSessionOps,
                   crashed, issued, requested>>
    /\ totalCost' = totalCost + PreviewCost
    /\ BriefUntouched
    /\ UNCHANGED urlSummaryForDisplay
    /\ NothingRead
    /\ SaveSession

\* generatePreviewImage rejects
PreviewRejects ==
    /\ ~crashed
    /\ \E c \in calls :
          /\ c.kind \in {"preview", "previewMore"}
          /\ calls' = calls \ {c}
          /\ settled' = settled \cup {Settled(c, FALSE)}
          /\ adCreatives' =
                IF adCreativesNull THEN adCreatives
                ELSE MapCreative(adCreatives, c.id, LAMBDA x : FailPreview(x, c.ratio))
          /\ isGeneratingMore' = MoreFlagAfter(c)
    /\ UNCHANGED <<adCreativesNull, isGeneratingInitial, error, aspectRatios, briefOk,
                   clock, plans, nextCall, nextPlan, exportFiles, nSessionOps,
                   crashed, issued, requested>>
    /\ BriefUntouched
    /\ UNCHANGED <<totalCost, urlSummaryForDisplay>>
    /\ NothingRead
    /\ SaveSession

\* ------------------------------------------------------------ AdDisplay
IsPreviewMode(creative) ==
    creative.status = "preview_ready" \/ creative.status = "generating_preview"

\* AdDisplay renders nothing when the active variant is missing
Rendered(creative) == creative.activeVariant \in DOMAIN creative.variants

ActiveVariantOf(creative) == creative.variants[creative.activeVariant]

\* the approve panel is rendered
ApproveEnabled(creative) ==
    /\ Rendered(creative)
    /\ IsPreviewMode(creative)
    /\ creative.status = "preview_ready"

\* mutant of RegenerateEnabled: the button is not disabled while generating
RegenerateEnabled_NoBusyCheck(creative) ==
    /\ Rendered(creative)
    /\ (~IsPreviewMode(creative) \/ Len(ActiveVariantOf(creative).history) > 0)

\* the regenerate button is rendered and not disabled
RegenerateEnabled(creative) ==
    /\ Rendered(creative)
    /\ (~IsPreviewMode(creative) \/ Len(ActiveVariantOf(creative).history) > 0)
    /\ ~ActiveVariantOf(creative).isGenerating

\* the edit button is rendered and not disabled (a non-blank instruction is typed)
EditEnabled(creative) ==
    /\ Rendered(creative)
    /\ ~IsPreviewMode(creative)
    /\ ~ActiveVariantOf(creative).isGenerating
    /\ HasCurrentImage(ActiveVariantOf(creative))

\* the tab of a ratio is not disabled
TabEnabled(creative, ratio) ==
    LET variant == creative.variants[ratio] IN
    ~(IsPreviewMode(creative) /\ Len(variant.history) = 0 /\ ~variant.isGenerating)

\* mutant of NavigateEnabled: the carousel buttons are always rendered, enabled
NavigateEnabled_Always(creative, direction) == Rendered(creative)

\* the carousel buttons are rendered and the one for the direction is not disabled
NavigateEnabled(creative, direction) ==
    /\ Rendered(creative)
    /\ HasCurrentImage(ActiveVariantOf(creative))
    /\ Len(ActiveVariantOf(creative).history) > 1
    /\ IF direction = "prev"
       THEN ActiveVariantOf(creative).currentHistoryIndex # 0
       ELSE ActiveVariantOf(creative).currentHistoryIndex
                # Len(ActiveVariantOf(creative).history) - 1

\* an updater dereferences a variant that the creative does not have
Throws(prev, id, ratio) ==
    \E i \in 1..Len(prev) : prev[i].id = id /\ ratio \notin DOMAIN prev[i].variants

\* An exception thrown by a state updater unmounts the component tree: no
\* later settlement can change the state any more.
Crash ==
    /\ crashed' = TRUE
    /\ calls' = {}
    /\ plans' = {}
    /\ UNCHANGED <<adCreatives, adCreativesNull, isGeneratingInitial, isGeneratingMore,
                   error, aspectRatios, briefOk, clock, nextCall, nextPlan,
                   localStorage, exportFiles, nSessionOps, issued, requested, settled>>
    /\ BriefUntouched
    /\ UNCHANGED <<totalCost, urlSummaryForDisplay>>
    /\ NothingRead

\* ------------------------------------------------------------- approval
\* mutant of MarkAllGenerating: the approval writes the status of a fresh draft
MarkAllGenerating_DraftStatus(c) ==
    [c EXCEPT !.status = "generating_preview",
              !.variants = [k \in DOMAIN c.variants |->
                               [c.variants[k] EXCEPT !.isGenerating = TRUE]]]

\* status generating_full and every variant marked as generating
MarkAllGenerating(c) ==
    [c EXCEPT !.status = "generating_full",
              !.variants = [k \in DOMAIN c.variants |->
                               [c.variants[k] EXCEPT !.isGenerating = TRUE]]]

\* the order in which ratiosToGenerate.map issues the calls
CallOrder(keys, first) ==
    CHOOSE f \in [keys -> (first + 1)..(first + Cardinality(keys))] :
        \A a, b \in keys : a # b => f[a] # f[b]

\* mutant of ApproveCalls: only the active ratio is generated
ApproveCalls_ActiveOnly(creative, first) ==
    {[tok |-> first + 1, kind |-> "approve", id |-> creative.id,
      ratio |-> creative.activeVariant, group |-> first + 1]}

\* the full-quality calls of one approval
ApproveCalls(creative, first) ==
    LET keys == DOMAIN creative.variants
        order == CallOrder(keys, first)
    IN {[tok |-> order[k], kind |-> "approve", id |-> creative.id, ratio |-> k,
         group |-> first + 1] : k \in keys}

handleApproveCreative ==
    /\ ~crashed
    /\ ~adCreativesNull
    /\ \E i \in 1..Len(adCreatives) :
          LET creative == adCreatives[i]
              issuedCalls == ApproveCalls(creative, nextCall)
          IN
          /\ ApproveEnabled(creative)
          /\ nextCall + Cardinality(DOMAIN creative.variants) <= MaxCalls
          /\ adCreatives' = MapCreative(adCreatives, creative.id, MarkAllGenerating)
          /\ calls' = calls \cup issuedCalls
          /\ nextCall' = nextCall + Cardinality(issuedCalls)
          /\ issued' = issued \cup {<<c.id, c.ratio>> : c \in issuedCalls}
    /\ UNCHANGED <<adCreativesNull, isGeneratingInitial, isGeneratingMore, error,
                   aspectRatios, briefOk, clock, plans, nextPlan, exportFiles,
                   nSessionOps, crashed, requested, settled>>
    /\ BriefUntouched
    /\ UNCHANGED <<totalCost, urlSummaryForDisplay>>
    /\ NothingRead
    /\ SaveSession

\* mutant of LastOfApproval: the status update does not wait for the other calls
LastOfApproval_NoWait(c) == TRUE

\* the last call of its approval settles: Promise.all resolves and the handler
\* goes on to set the status
LastOfApproval(c) ==
    ~\E d \in calls \ {c} : d.kind = "approve" /\ d.group = c.group

SetCompleted(c) == [c EXCEPT !.status = "completed"]

\* the state after one full-quality call of an approval has settled with update
\* Update: the keyed update, then the status update when it was the last call
ApprovalSettles(c, ok, Update(_)) ==
    LET after == IF adCreativesNull THEN adCreatives
                 ELSE MapCreative(adCreatives, c.id, Update)
    IN
    IF LastOfApproval(c) /\ adCreativesNull
    THEN Crash
    ELSE /\ calls' = calls \ {c}
         /\ settled' = settled \cup {Settled(c, ok)}
         /\ adCreatives' = IF LastOfApproval(c)
                           THEN MapCreative(after, c.id, SetCompleted)
                           ELSE after
         /\ UNCHANGED <<adCreativesNull, isGeneratingInitial, isGeneratingMore, error,
                        aspectRatios, briefOk, clock, plans, nextCall, nextPlan,
                        exportFiles, nSessionOps, crashed, issued, requested>>
         /\ totalCost' = IF ok THEN totalCost + FullCost ELSE totalCost
         /\ BriefUntouched
         /\ UNCHANGED urlSummaryForDisplay
         /\ NothingRead
         /\ SaveSession

\* generateAdImage of an approval resolves
ApproveResolves ==
    /\ ~crashed
    /\ \E c \in calls :
          /\ c.kind = "approve"
          /\ IF ~adCreativesNull /\ Throws(adCreatives, c.id, c.ratio)
             THEN Crash
             ELSE ApprovalSettles(c, TRUE, LAMBDA x : AppendImage(x, c.ratio, c.tok))

\* generateAdImage of an approval rejects
ApproveRejects ==
    /\ ~crashed
    /\ \E c \in calls :
          /\ c.kind = "approve"
          /\ ApprovalSettles(c, FALSE, LAMBDA x : ClearBusy(x, c.ratio))

\* -------------------------------------------------- regenerate and edit
\* mutant of SetBusy: the handler also marks the creative as generating
SetBusy_MarksCreative(c, ratio) ==
    [c EXCEPT !.status = "generating_full",
              !.variants =
                  WithVariant(c.variants, ratio,
                              [VariantOf(c, ratio) EXCEPT !.isGenerating = TRUE])]

\* imagePrompt: newPrompt, isGenerating: true / isGenerating: true
SetBusy(c, ratio) ==
    [c EXCEPT !.variants =
        WithVariant(c.variants, ratio,
                    [VariantOf(c, ratio) EXCEPT !.isGenerating = TRUE])]

\* a single call for the active variant of a creative is issued
IssueSingle(creative, kind) ==
    LET ratio == creative.activeVariant IN
    /\ nextCall < MaxCalls
    /\ error' = "null"
    /\ adCreatives' = MapCreative(adCreatives, creative.id, LAMBDA c : SetBusy(c, ratio))
    /\ calls' = calls \cup {[tok |-> nextCall + 1, kind |-> kind, id |-> creative.id,
                             ratio |-> ratio, group |-> nextCall + 1]}
    /\ nextCall' = nextCall + 1
    /\ issued' = issued \cup {<<creative.id, ratio>>}
    /\ UNCHANGED <<adCreativesNull, isGeneratingInitial, isGeneratingMore,
                   aspectRatios, briefOk, clock, plans, nextPlan, exportFiles,
                   nSessionOps, crashed, requested, settled>>
    /\ BriefUntouched
    /\ UNCHANGED <<totalCost, urlSummaryForDisplay>>
    /\ NothingRead
    /\ SaveSession

handleRegenerateVariant ==
    /\ ~crashed
    /\ ~adCreativesNull
    /\ \E i \in 1..Len(adCreatives) :
          /\ RegenerateEnabled(adCreatives[i])
          /\ IssueSingle(adCreatives[i], "regen")

\* mutant of EditIssuesCall: the handler does not look for a current image
EditIssuesCall_NoImageCheck(creative, ratio) == ratio \in DOMAIN creative.variants

\* handleEditVariant goes past its early returns: the variant has a current
\* image (every generated url is a data URL, so the match never fails)
EditIssuesCall(creative, ratio) ==
    /\ ratio \in DOMAIN creative.variants
    /\ HasCurrentImage(creative.variants[ratio])

\* the collection handleEditVariant(id, ratio) leaves behind, before its call settles
EditedCollection(creative, ratio) ==
    IF EditIssuesCall(creative, ratio)
    THEN MapCreative(adCreatives, creative.id, LAMBDA c : SetBusy(c, ratio))
    ELSE adCreatives

\* the calls handleEditVariant(id, ratio) issues
EditCalls(creative, ratio) ==
    IF EditIssuesCall(creative, ratio)
    THEN {[tok |-> nextCall + 1, kind |-> "edit", id |-> creative.id,
           ratio |-> ratio, group |-> nextCall + 1]}
    ELSE {}

handleEditVariant ==
    /\ ~crashed
    /\ ~adCreativesNull
    /\ \E i \in 1..Len(adCreatives) :
          /\ EditEnabled(adCreatives[i])
          /\ EditIssuesCall(adCreatives[i], adCreatives[i].activeVariant)
          /\ IssueSingle(adCreatives[i], "edit")
          /\ adCreatives' = EditedCollection(adCreatives[i], adCreatives[i].activeVariant)
          /\ calls' = calls \cup EditCalls(adCreatives[i], adCreatives[i].activeVariant)

\* generateAdImage / editAdImage of a regenerate or an edit resolves
SingleResolves ==
    /\ ~crashed
    /\ \E c \in calls :
          /\ c.kind \in {"regen", "edit"}
          /\ IF adCreativesNull \/ Throws(adCreatives, c.id, c.ratio)
             THEN Crash
             ELSE /\ calls' = calls \ {c}
                  /\ settled' = settled \cup {Settled(c, TRUE)}
                  /\ adCreatives' = MapCreative(adCreatives, c.id,
                                                LAMBDA x : AppendImage(x, c.ratio, c.tok))
                  /\ UNCHANGED <<adCreativesNull, isGeneratingInitial, isGeneratingMore,
                                 error, aspectRatios, briefOk, clock, plans, nextCall,
                                 nextPlan, exportFiles, nSessionOps, crashed,
                                 issued, requested>>
                  /\ totalCost' = IF c.kind = "regen" THEN totalCost + FullCost ELSE totalCost
                  /\ BriefUntouched
                  /\ UNCHANGED urlSummaryForDisplay
                  /\ NothingRead
                  /\ SaveSession

\* generateAdImage / editAdImage of a regenerate or an edit rejects
SingleRejects ==
    /\ ~crashed
    /\ \E c \in calls :
          /\ c.kind \in {"regen", "edit"}
          /\ IF adCreativesNull
             THEN Crash
             ELSE /\ calls' = calls \ {c}
                  /\ settled' = settled \cup {Settled(c, FALSE)}
                  /\ error' = "api"
                  /\ adCreatives' = MapCreative(adCreatives, c.id,
                                                LAMBDA x : ClearBusy(x, c.ratio))
                  /\ UNCHANGED <<adCreativesNull, isGeneratingInitial, isGeneratingMore,
                                 aspectRatios, briefOk, clock, plans, nextCall,
                                 nextPlan, exportFiles, nSessionOps, crashed,
                                 issued, requested>>
                  /\ BriefUntouched
                  /\ UNCHANGED <<totalCost, urlSummaryForDisplay>>
                  /\ NothingRead
                  /\ SaveSession

\* ------------------------------------------------ tabs, carousel, discard
handleSetActiveVariant ==
    /\ ~crashed
    /\ ~adCreativesNull
    /\ \E i \in 1..Len(adCreatives) :
          /\ Rendered(adCreatives[i])
          /\ \E ratio \in DOMAIN adCreatives[i].variants :
                /\ ratio # adCreatives[i].activeVariant
                /\ TabEnabled(adCreatives[i], ratio)
                /\ adCreatives' = MapCreative(adCreatives, adCreatives[i].id,
                                       LAMBDA c : [c EXCEPT !.activeVariant = ratio])
    /\ UNCHANGED <<adCreativesNull, isGeneratingInitial, isGeneratingMore, error,
                   aspectRatios, briefOk, clock, plans, calls, nextCall, nextPlan,
                   exportFiles, nSessionOps, crashed, issued, requested, settled>>
    /\ BriefUntouched
    /\ UNCHANGED <<totalCost, urlSummaryForDisplay>>
    /\ NothingRead
    /\ SaveSession

\* the cursor after one step in a direction
NavigatedIndex(variant, direction) ==
    IF direction = "prev"
    THEN Max(0, variant.currentHistoryIndex - 1)
    ELSE Min(Len(variant.history) - 1, variant.currentHistoryIndex + 1)

Navigate(c, ratio, direction) ==
    [c EXCEPT !.variants =
        WithVariant(c.variants, ratio,
                    [c.variants[ratio] EXCEPT
                        !.currentHistoryIndex = NavigatedIndex(c.variants[ratio], direction)])]

handleNavigateHistory ==
    /\ ~crashed
    /\ ~adCreativesNull
    /\ \E i \in 1..Len(adCreatives), direction \in {"prev", "next"} :
          /\ NavigateEnabled(adCreatives[i], direction)
          /\ adCreatives' = MapCreative(adCreatives, adCreatives[i].id,
                                 LAMBDA c : Navigate(c, adCreatives[i].activeVariant, direction))
    /\ UNCHANGED <<adCreativesNull, isGeneratingInitial, isGeneratingMore, error,
                   aspectRatios, briefOk, clock, plans, calls, nextCall, nextPlan,
                   exportFiles, nSessionOps, crashed, issued, requested, settled>>
    /\ BriefUntouched
    /\ UNCHANGED <<totalCost, urlSummaryForDisplay>>
    /\ NothingRead
    /\ SaveSession

\* mutant of Remaining: the creatives listed after the discarded one go with it
Remaining_DropsRest(prev, id) ==
    SubSeq(prev, 1, (CHOOSE i \in 1..(Len(prev) + 1) :
                        /\ i = Len(prev) + 1 \/ prev[i].id = id
                        /\ \A j \in 1..(i - 1) : prev[j].id # id) - 1)

\* prev.filter(c => c.id !== id)
Remaining(prev, id) == SeqFilter(prev, LAMBDA c : c.id # id)

\* the discard button of a rendered creative
handleDiscardCreative ==
    /\ ~crashed
    /\ ~adCreativesNull
    /\ \E i \in 1..Len(adCreatives) :
          LET remaining == Remaining(adCreatives, adCreatives[i].id) IN
          /\ Rendered(adCreatives[i])
          /\ adCreatives' = remaining
          /\ adCreativesNull' = (Len(remaining) = 0)
    /\ UNCHANGED <<isGeneratingInitial, isGeneratingMore, error,
                   aspectRatios, briefOk, clock, plans, calls, nextCall, nextPlan,
                   exportFiles, nSessionOps, crashed, issued, requested, settled>>
    /\ BriefUntouched
    /\ UNCHANGED <<totalCost, urlSummaryForDisplay>>
    /\ NothingRead
    /\ SaveSession

\* ------------------------------------------- session reset, export, import
\* one more session-level step is taken
SessionOp ==
    /\ nSessionOps < MaxSessionOps
    /\ nSessionOps' = nSessionOps + 1

\* one more step with a file is taken
FileOp ==
    /\ nSessionOps < MaxFileOps
    /\ nSessionOps' = nSessionOps + 1

handleGoBack ==
    /\ ~crashed
    /\ ~adCreativesNull
    /\ SessionOp
    /\ adCreatives' = <<>>
    /\ adCreativesNull' = TRUE
    /\ error' = "null"
    /\ isGeneratingInitial' = FALSE
    /\ UNCHANGED <<isGeneratingMore, aspectRatios, briefOk, clock, plans, calls,
                   nextCall, nextPlan, exportFiles, crashed,
                   issued, requested, settled>>
    /\ urlSummaryForDisplay' = <<>>
    /\ BriefUntouched
    /\ UNCHANGED totalCost
    /\ NothingRead
    /\ SaveSession

handleClearSession ==
    /\ ~crashed
    /\ SessionOp
    /\ localStorage' = <<>>
    /\ adCreatives' = <<>>
    /\ adCreativesNull' = TRUE
    /\ error' = "null"
    /\ isGeneratingInitial' = FALSE
    /\ urlSummaryForDisplay' = <<>>
    /\ totalCost' = 0
    /\ objective' = DefaultObjective
    /\ audienceAction' = <<>>
    /\ keyMessage' = <<>>
    /\ context' = <<>>
    /\ aspectRatios' = ClearedAspectRatios
    /\ briefOk' = BriefFilled(audienceAction', keyMessage')
    /\ UNCHANGED <<isGeneratingMore, clock, plans, calls, nextCall, nextPlan,
                   exportFiles, crashed, issued, requested, settled>>
    /\ NothingRead

handleExport ==
    /\ ~crashed
    /\ ~adCreativesNull
    /\ FileOp
    /\ exportFiles' = Append(exportFiles,
                             Snapshot(adCreatives, aspectRatios, FormFields, totalCost,
                                      urlSummaryForDisplay))
    /\ UNCHANGED <<adCreatives, adCreativesNull, isGeneratingInitial, isGeneratingMore,
                   error, aspectRatios, briefOk, clock, plans, calls, nextCall, nextPlan,
                   localStorage, crashed, issued, requested, settled>>
    /\ BriefUntouched
    /\ UNCHANGED <<totalCost, urlSummaryForDisplay>>
    /\ NothingRead

\* a variant as the previous schema stored it: one embedded image or none, no history
LegacyVariant(hasImage, busy) ==
    [hasImage |-> hasImage, image |-> LegacyUrl, hasHistory |-> FALSE,
     history |-> <<>>, currentHistoryIndex |-> -1, isGenerating |-> busy,
     imagePrompt |-> PlannedPrompt]

\* the variants the previous schema could store: generated, failed, still generating
LegacyVariants ==
    {LegacyVariant(TRUE, FALSE), LegacyVariant(FALSE, FALSE), LegacyVariant(FALSE, TRUE)}

LegacyRatios == <<"1:1">>

\* id of the creative of the legacy snapshots (a Date.now() before this session)
LegacyId == <<0, 0, "">>

\* snapshots written by the previous schema: no status, no history
LegacyDocs ==
    {[missing |-> {},
      adCreatives |-> <<[id |-> LegacyId, hasStatus |-> FALSE, status |-> "completed",
                         activeVariant |-> LegacyRatios[1], variants |-> vs]>>,
      totalCost |-> 0,
      urlSummaryForDisplay |-> <<>>,
      formState |-> [objective |-> <<>>, audienceAction |-> FilledText,
                     keyMessage |-> FilledText, context |-> <<>>,
                     aspectRatios |-> LegacyRatios]]
       : vs \in [Range(LegacyRatios) -> LegacyVariants]}

\* what a document may lack: it does not parse, or one of the tested parts
MissingParts == {"syntax", "adCreatives", "formState", "totalCost"}

\* files that lack adCreatives, formState or totalCost, or do not parse
InvalidDocs ==
    {[missing |-> {part}, adCreatives |-> <<>>, totalCost |-> 0,
      urlSummaryForDisplay |-> <<>>,
      formState |-> [objective |-> <<>>, audienceAction |-> <<>>, keyMessage |-> <<>>,
                     context |-> <<>>, aspectRatios |-> <<>>]]
       : part \in MissingParts}

\* what the histories record about the creatives a snapshot brings in
KnownAfter(doc, known) ==
    known \cup {<<doc.adCreatives[i].id, DOMAIN doc.adCreatives[i].variants>>
                    : i \in {j \in 1..Len(doc.adCreatives) : ~doc.adCreatives[j].hasStatus}}

IssuedAfter(doc, known) ==
    known \cup UNION {{<<doc.adCreatives[i].id, k>> : k \in DOMAIN doc.adCreatives[i].variants}
                        : i \in {j \in 1..Len(doc.adCreatives) : ~doc.adCreatives[j].hasStatus}}

\* the body of reader.onload of handleImport
handleImport ==
    /\ ~crashed
    /\ FileOp
    /\ \E doc \in Range(exportFiles) \cup LegacyDocs \cup InvalidDocs :
          /\ docRead' = <<[doc |-> doc, by |-> "import"]>>
          /\ IF Recognised(doc)
             THEN /\ adCreatives' = MigrateCreatives(doc)
                  /\ adCreativesNull' = FALSE
                  /\ totalCost' = doc.totalCost
                  /\ urlSummaryForDisplay' = OrNull(doc.urlSummaryForDisplay)
                  /\ objective' = OrDefault(doc.formState.objective, DefaultObjective)
                  /\ audienceAction' = doc.formState.audienceAction
                  /\ keyMessage' = doc.formState.keyMessage
                  /\ context' = doc.formState.context
                  /\ aspectRatios' = doc.formState.aspectRatios
                  /\ briefOk' = BriefFilled(audienceAction', keyMessage')
                  /\ error' = "null"
                  /\ isGeneratingInitial' = FALSE
                  /\ issued' = IssuedAfter(doc, issued)
                  /\ requested' = KnownAfter(doc, requested)
             ELSE /\ error' = "import"
                  /\ UNCHANGED <<adCreatives, adCreativesNull, aspectRatios, briefOk,
                                 isGeneratingInitial, issued, requested, totalCost,
                                 urlSummaryForDisplay>>
                  /\ BriefUntouched
    /\ UNCHANGED <<isGeneratingMore, clock, plans, calls, nextCall, nextPlan,
                   exportFiles, crashed, settled>>
    /\ SaveSession

\* The page is reloaded: every pending call of the old page is gone, the state
\* is constructed anew and the load effect restores the stored session, or
\* removes what it does not recognise.
Reload ==
    /\ SessionOp
    /\ plans' = {}
    /\ calls' = {}
    /\ crashed' = FALSE
    /\ error' = "null"
    /\ isGeneratingInitial' = FALSE
    /\ isGeneratingMore' = FALSE
    /\ docRead' = IF Len(localStorage) > 0
                  THEN <<[doc |-> localStorage[1], by |-> "load"]>>
                  ELSE <<>>
    /\ IF Len(localStorage) > 0 /\ Recognised(localStorage[1])
       THEN /\ adCreatives' = MigrateCreatives(localStorage[1])
            /\ adCreativesNull' = FALSE
            /\ totalCost' = localStorage[1].totalCost
            /\ urlSummaryForDisplay' = OrNull(localStorage[1].urlSummaryForDisplay)
            /\ objective' = OrDefault(localStorage[1].formState.objective,
                                      DefaultObjective)
            /\ audienceAction' = localStorage[1].formState.audienceAction
            /\ keyMessage' = localStorage[1].formState.keyMessage
            /\ context' = localStorage[1].formState.context
            /\ aspectRatios' = localStorage[1].formState.aspectRatios
            /\ briefOk' = BriefFilled(audienceAction', keyMessage')
            /\ SaveSession
       ELSE /\ adCreatives' = <<>>
            /\ adCreativesNull' = TRUE
            /\ totalCost' = 0
            /\ urlSummaryForDisplay' = <<>>
            /\ objective' = DefaultObjective
            /\ audienceAction' = <<>>
            /\ keyMessage' = <<>>
            /\ context' = <<>>
            /\ aspectRatios' = DefaultAspectRatios
            /\ briefOk' = BriefFilled(audienceAction', keyMessage')
            /\ localStorage' = <<>>
    /\ UNCHANGED <<clock, nextCall, nextPlan, exportFiles, issued, requested, settled>>

\* ------------------------------------------------- interactive assistant
\* the four text fields update_form_fields may name
FieldNames == {"objective", "audienceAction", "keyMessage", "context"}
\* texts the user types into a field of the form
TypedTexts == {<<" ">>, <<"a">>, UrlText}
\* texts the backend passes as the value of a field
ArgTexts == {<<>>, <<"b">>}
\* texts of the chat input box
InputTexts == {<<"a">>}
\* fields of the form the user types into
TypedFields == {"keyMessage", "context"}

\* the args objects of one function call: some fields named, each with a text
CallArgs ==
    UNION {[named -> ArgTexts] :
              named \in {S \in SUBSET FieldNames : Cardinality(S) <= MaxNamed}}

\* the function calls the backend may put into one response
FunctionCalls ==
    {[name |-> "update_form_fields", args |-> a] : a \in CallArgs}
        \cup {[name |-> "other_tool", args |-> <<>>]}

CallLists ==
    UNION {[1..n -> FunctionCalls] : n \in 1..MaxCallsPerResponse}

\* `if (fields.x)`: the field is named and its text is not the empty string
Given(fields, name) == name \in DOMAIN fields /\ Len(fields[name]) > 0

SetField_ClearsUnnamed(current, fields, name) ==
    IF name \in DOMAIN fields /\ Len(fields[name]) > 0 THEN fields[name] ELSE <<>>

\* `if (fields.x) setX(fields.x)`
SetField(current, fields, name) ==
    IF Given(fields, name) THEN fields[name] ELSE current

\* newContext of handleAssistantUpdate; seen is the context of the render
\* the handler was created in
NewContext(seen, given) ==
    IF Len(seen) > 0 /\ Trim(seen) # <<>> THEN seen \o <<"\n">> \o given ELSE given

\* handleAssistantUpdate of CampaignInput, applied to the current fields
handleAssistantUpdate(form, seen, fields) ==
    [objective |-> SetField(form.objective, fields, "objective"),
     audienceAction |-> SetField(form.audienceAction, fields, "audienceAction"),
     keyMessage |-> SetField(form.keyMessage, fields, "keyMessage"),
     context |-> IF Given(fields, "context")
                 THEN NewContext(seen, fields["context"])
                 ELSE form.context]

\* the calls of one response the loop of handleSendMessage answers
IsUpdateCall(call) == call.name = "update_form_fields"

UpdateCalls(functionCalls) ==
    {i \in 1..Len(functionCalls) : IsUpdateCall(functionCalls[i])}

\* `for (const call of functionCalls)`: every update_form_fields call is
\* passed to onUpdateFields, in order
RECURSIVE ApplyFunctionCalls(_, _, _)
ApplyFunctionCalls(form, seen, functionCalls) ==
    IF Len(functionCalls) = 0
    THEN form
    ELSE ApplyFunctionCalls(
             IF IsUpdateCall(Head(functionCalls))
             THEN handleAssistantUpdate(form, seen, Head(functionCalls).args)
             ELSE form,
             seen, Tail(functionCalls))

\* the session state the form and the assistant never write
SessionUntouched ==
    UNCHANGED <<adCreatives, adCreativesNull, isGeneratingInitial, isGeneratingMore,
                error, aspectRatios, clock, plans, calls, nextCall, nextPlan,
                exportFiles, nSessionOps, crashed, issued, requested, settled,
                totalCost, urlSummaryForDisplay, docRead>>

\* the state of the chat the session handlers never write
AssistantIdle ==
    UNCHANGED <<showInteractiveMode, messages, inputValue, isTyping, turns, nextTurn,
                nEdits, applied>>

\* the user types into one of the text fields of the form
EditBriefField ==
    /\ ~crashed
    /\ adCreativesNull
    /\ ~isGeneratingInitial
    /\ ~showInteractiveMode
    /\ nEdits < MaxEdits
    /\ nEdits' = nEdits + 1
    /\ \E name \in TypedFields, text \in TypedTexts :
          /\ objective' = IF name = "objective" THEN text ELSE objective
          /\ audienceAction' = IF name = "audienceAction" THEN text ELSE audienceAction
          /\ keyMessage' = IF name = "keyMessage" THEN text ELSE keyMessage
          /\ context' = IF name = "context" THEN text ELSE context
          /\ FormFields' # FormFields
    /\ briefOk' = BriefFilled(audienceAction', keyMessage')
    /\ UNCHANGED <<showInteractiveMode, messages, inputValue, isTyping, turns,
                   nextTurn, applied>>
    /\ SessionUntouched
    /\ SaveSession

\* "Modo Interactivo": the assistant is mounted and initChat sends the greeting
OpenAssistant ==
    /\ ~crashed
    /\ adCreativesNull
    /\ ~isGeneratingInitial
    /\ ~showInteractiveMode
    /\ showInteractiveMode' = TRUE
    /\ messages' = <<>>
    /\ inputValue' = <<>>
    /\ isTyping' = TRUE
    /\ turns' = turns \cup {[tid |-> 0, kind |-> "init", context |-> context,
                             iterations |-> 0]}
    /\ UNCHANGED <<objective, audienceAction, keyMessage, context, briefOk, nextTurn,
                   nEdits, applied>>
    /\ SessionUntouched
    /\ SaveSession

\* the greeting is answered (response.text may be empty)
InitChatResolves ==
    /\ \E t \in turns :
          /\ t.kind = "init"
          /\ turns' = turns \ {t}
          /\ \E hasText \in BOOLEAN :
                messages' = IF hasText THEN <<"model">> ELSE messages
    /\ isTyping' = FALSE
    /\ UNCHANGED <<objective, audienceAction, keyMessage, context, briefOk,
                   showInteractiveMode, inputValue, nextTurn, nEdits, applied>>
    /\ SessionUntouched
    /\ SaveSession

\* the greeting fails: the catch block shows the apology
InitChatRejects ==
    /\ \E t \in turns :
          /\ t.kind = "init"
          /\ turns' = turns \ {t}
    /\ messages' = <<"model">>
    /\ isTyping' = FALSE
    /\ UNCHANGED <<objective, audienceAction, keyMessage, context, briefOk,
                   showInteractiveMode, inputValue, nextTurn, nEdits, applied>>
    /\ SessionUntouched
    /\ SaveSession

\* the user types into the chat box
TypeInput ==
    /\ showInteractiveMode
    /\ \E text \in InputTexts :
          /\ text # inputValue
          /\ inputValue' = text
    /\ UNCHANGED <<objective, audienceAction, keyMessage, context, briefOk,
                   showInteractiveMode, messages, isTyping, turns, nextTurn, nEdits,
                   applied>>
    /\ SessionUntouched
    /\ SaveSession

\* the send button is rendered enabled
SendEnabled == Trim(inputValue) # <<>> /\ ~isTyping

\* handleSendMessage, from the send button or from Enter in the text area
handleSendMessage ==
    /\ showInteractiveMode
    /\ nextTurn < MaxTurns
    /\ \E via \in {"button", "enter"} :
          via = "button" => SendEnabled
    /\ Trim(inputValue) # <<>>
    /\ inputValue' = <<>>
    /\ messages' = Append(messages, "user")
    /\ isTyping' = TRUE
    /\ nextTurn' = nextTurn + 1
    /\ turns' = turns \cup {[tid |-> nextTurn + 1, kind |-> "user",
                             context |-> context, iterations |-> 0]}
    /\ UNCHANGED <<objective, audienceAction, keyMessage, context, briefOk,
                   showInteractiveMode, nEdits, applied>>
    /\ SessionUntouched
    /\ SaveSession

\* the fields after the loop body has handled the calls of one response
FieldsAfter(t, functionCalls) ==
    ApplyFunctionCalls(FormFields, t.context, functionCalls)

\* what the update_form_fields calls of one response name, a later call
\* overriding an earlier one
RECURSIVE NamedFields(_)
NamedFields(functionCalls) ==
    IF Len(functionCalls) = 0
    THEN <<>>
    ELSE LET last == functionCalls[Len(functionCalls)]
             earlier == NamedFields(SubSeq(functionCalls, 1, Len(functionCalls) - 1))
             names == IF IsUpdateCall(last)
                      THEN DOMAIN earlier \cup DOMAIN last.args
                      ELSE DOMAIN earlier
         IN  [name \in names |->
                 IF IsUpdateCall(last) /\ name \in DOMAIN last.args
                 THEN last.args[name]
                 ELSE earlier[name]]

\* one more iteration is started: the responses are sent back to the backend
NextIteration(t) == [t EXCEPT !.iterations = t.iterations + 1]

\* a response carrying update_form_fields calls: the loop body applies them
\* and sends the function responses, awaiting the next response
ToolCallResponse ==
    /\ \E t \in turns, functionCalls \in CallLists :
          /\ t.kind = "user"
          /\ t.iterations < MaxIterations
          /\ UpdateCalls(functionCalls) # {}
          /\ LET after == FieldsAfter(t, functionCalls) IN
                /\ objective' = after.objective
                /\ audienceAction' = after.audienceAction
                /\ keyMessage' = after.keyMessage
                /\ context' = after.context
          /\ turns' = (turns \ {t}) \cup {NextIteration(t)}
          /\ applied' = NamedFields(functionCalls)
    /\ briefOk' = BriefFilled(audienceAction', keyMessage')
    /\ UNCHANGED <<showInteractiveMode, messages, inputValue, isTyping, nextTurn,
                   nEdits>>
    /\ SessionUntouched
    /\ SaveSession

\* a response without update_form_fields calls ends the loop; its text, if
\* any, is shown
TextResponse ==
    /\ \E t \in turns :
          /\ t.kind = "user"
          /\ turns' = turns \ {t}
          /\ \E hasText \in BOOLEAN :
                messages' = IF hasText THEN Append(messages, "model") ELSE messages
    /\ isTyping' = FALSE
    /\ UNCHANGED <<objective, audienceAction, keyMessage, context, briefOk,
                   showInteractiveMode, inputValue, nextTurn, nEdits, applied>>
    /\ SessionUntouched
    /\ SaveSession

\* sendMessage rejects: the catch block shows the connection error
ResponseRejects ==
    /\ \E t \in turns :
          /\ t.kind = "user"
          /\ turns' = turns \ {t}
    /\ messages' = Append(messages, "model")
    /\ isTyping' = FALSE
    /\ UNCHANGED <<objective, audienceAction, keyMessage, context, briefOk,
                   showInteractiveMode, inputValue, nextTurn, nEdits, applied>>
    /\ SessionUntouched
    /\ SaveSession

\* The session without files: planning, previews, approval, regenerate, edit,
\* the controls of AdDisplay, go back, clear and reload.
Next ==
    \/ FillBrief /\ AssistantIdle
    \/ toggleAspectRatio /\ AssistantIdle
    \/ handleGenerateIdeas /\ AssistantIdle
    \/ handleGenerateMore /\ AssistantIdle
    \/ PlanningResolves /\ AssistantIdle
    \/ PlanningRejects /\ AssistantIdle
    \/ PreviewResolves /\ AssistantIdle
    \/ PreviewRejects /\ AssistantIdle
    \/ handleApproveCreative /\ AssistantIdle
    \/ ApproveResolves /\ AssistantIdle
    \/ ApproveRejects /\ AssistantIdle
    \/ handleRegenerateVariant /\ AssistantIdle
    \/ handleEditVariant /\ AssistantIdle
    \/ SingleResolves /\ AssistantIdle
    \/ SingleRejects /\ AssistantIdle
    \/ handleSetActiveVariant /\ AssistantIdle
    \/ handleNavigateHistory /\ AssistantIdle
    \/ handleDiscardCreative /\ AssistantIdle
    \/ handleGoBack /\ AssistantIdle
    \/ handleClearSession /\ AssistantIdle
    \/ Reload /\ AssistantIdle

Spec == Init /\ [][Next]_vars

\* The session with exported and imported files, under the smaller budgets.
FileBudget ==
    /\ nextCall' <= MaxFileCalls
    /\ nextPlan' <= MaxFilePlans

NextFiles ==
    \/ FillBrief /\ FileBudget /\ AssistantIdle
    \/ toggleAspectRatio /\ FileBudget /\ AssistantIdle
    \/ handleGenerateIdeas /\ FileBudget /\ AssistantIdle
    \/ handleGenerateMore /\ FileBudget /\ AssistantIdle
    \/ PlanningResolves /\ FileBudget /\ AssistantIdle
    \/ PlanningRejects /\ FileBudget /\ AssistantIdle
    \/ PreviewResolves /\ FileBudget /\ AssistantIdle
    \/ PreviewRejects /\ FileBudget /\ AssistantIdle
    \/ handleApproveCreative /\ FileBudget /\ AssistantIdle
    \/ ApproveResolves /\ FileBudget /\ AssistantIdle
    \/ ApproveRejects /\ FileBudget /\ AssistantIdle
    \/ handleRegenerateVariant /\ FileBudget /\ AssistantIdle
    \/ handleEditVariant /\ FileBudget /\ AssistantIdle
    \/ SingleResolves /\ FileBudget /\ AssistantIdle
    \/ SingleRejects /\ FileBudget /\ AssistantIdle
    \/ handleSetActiveVariant /\ FileBudget /\ AssistantIdle
    \/ handleNavigateHistory /\ FileBudget /\ AssistantIdle
    \/ handleDiscardCreative /\ FileBudget /\ AssistantIdle
    \/ handleGoBack /\ FileBudget /\ AssistantIdle
    \/ handleClearSession /\ FileBudget /\ AssistantIdle
    \/ Reload /\ FileBudget /\ AssistantIdle
    \/ handleExport /\ FileBudget /\ AssistantIdle
    \/ handleImport /\ FileBudget /\ AssistantIdle

SpecFiles == Init /\ [][NextFiles]_vars

\* The brief form with the interactive assistant.
NextAssistant ==
    \/ EditBriefField
    \/ OpenAssistant
    \/ InitChatResolves
    \/ InitChatRejects
    \/ TypeInput
    \/ handleSendMessage
    \/ ToolCallResponse
    \/ TextResponse
    \/ ResponseRejects

SpecAssistant == Init /\ [][NextAssistant]_vars

\* Generation from a brief whose context may hold a URL.
NextSummary ==
    \/ EditBriefField
    \/ FillBrief /\ AssistantIdle
    \/ toggleAspectRatio /\ AssistantIdle
    \/ handleGenerateIdeas /\ AssistantIdle
    \/ SummaryResolves /\ AssistantIdle
    \/ SummaryRejects /\ AssistantIdle
    \/ PlanningResolves /\ AssistantIdle
    \/ PlanningRejects /\ AssistantIdle
    \/ PreviewResolves /\ AssistantIdle
    \/ PreviewRejects /\ AssistantIdle
    \/ handleGoBack /\ AssistantIdle
    \/ handleClearSession /\ AssistantIdle

SpecSummary == Init /\ [][NextSummary]_vars

\* The page is opened by a browser whose local storage holds a snapshot of
\* the previous schema, or something the load effect does not recognise.
InitStored ==
    /\ InitSession
    /\ localStorage \in {<<doc>> : doc \in LegacyDocs \cup InvalidDocs}

\* The load effect and the controls of a restored session.
NextStored ==
    \/ Reload /\ AssistantIdle
    \/ handleImport /\ AssistantIdle /\ FileBudget
    \/ handleExport /\ AssistantIdle
    \/ handleNavigateHistory /\ AssistantIdle
    \/ handleRegenerateVariant /\ AssistantIdle /\ FileBudget
    \/ SingleResolves /\ AssistantIdle
    \/ SingleRejects /\ AssistantIdle
    \/ handleDiscardCreative /\ AssistantIdle
    \/ handleClearSession /\ AssistantIdle

SpecStored == InitStored /\ [][NextStored]_vars

\* Generation when the planner's responses need not follow responseSchema.
NextPrompts ==
    \/ FillBrief /\ AssistantIdle
    \/ toggleAspectRatio /\ AssistantIdle
    \/ handleGenerateIdeas /\ AssistantIdle
    \/ handleGenerateMore /\ AssistantIdle
    \/ PlanningResolves /\ AssistantIdle
    \/ PlanningResolvesLoosely /\ AssistantIdle
    \/ PlanningRejects /\ AssistantIdle
    \/ PreviewResolves /\ AssistantIdle
    \/ PreviewRejects /\ AssistantIdle
    \/ handleApproveCreative /\ AssistantIdle
    \/ ApproveResolves /\ AssistantIdle
    \/ ApproveRejects /\ AssistantIdle

SpecPrompts == Init /\ [][NextPrompts]_vars

\* Generation from a brief that may hold a URL, with export and import.
NextRoundTrip ==
    \/ EditBriefField
    \/ FillBrief /\ FileBudget /\ AssistantIdle
    \/ toggleAspectRatio /\ FileBudget /\ AssistantIdle
    \/ handleGenerateIdeas /\ FileBudget /\ AssistantIdle
    \/ SummaryResolves /\ FileBudget /\ AssistantIdle
    \/ SummaryRejects /\ FileBudget /\ AssistantIdle
    \/ PlanningResolves /\ FileBudget /\ AssistantIdle
    \/ PlanningRejects /\ FileBudget /\ AssistantIdle
    \/ PreviewResolves /\ FileBudget /\ AssistantIdle
    \/ PreviewRejects /\ FileBudget /\ AssistantIdle
    \/ handleApproveCreative /\ FileBudget /\ AssistantIdle
    \/ ApproveResolves /\ FileBudget /\ AssistantIdle
    \/ ApproveRejects /\ FileBudget /\ AssistantIdle
    \/ handleSetActiveVariant /\ FileBudget /\ AssistantIdle
    \/ handleDiscardCreative /\ FileBudget /\ AssistantIdle
    \/ handleExport /\ FileBudget /\ AssistantIdle
    \/ handleImport /\ FileBudget /\ AssistantIdle

SpecRoundTrip == Init /\ [][NextRoundTrip]_vars

\* The session when every issued call eventually settles.
LiveBudget ==
    /\ nextCall' <= MaxLiveCalls
    /\ nextPlan' <= MaxLivePlans

\* a pending call settles, one way or the other
Settles ==
    \/ PlanningResolves
    \/ PlanningRejects
    \/ PreviewResolves
    \/ PreviewRejects
    \/ ApproveResolves
    \/ ApproveRejects
    \/ SingleResolves
    \/ SingleRejects

NextLive ==
    \/ FillBrief /\ LiveBudget /\ AssistantIdle
    \/ toggleAspectRatio /\ LiveBudget /\ AssistantIdle
    \/ handleGenerateIdeas /\ LiveBudget /\ AssistantIdle
    \/ PlanningResolves /\ LiveBudget /\ AssistantIdle
    \/ PlanningRejects /\ LiveBudget /\ AssistantIdle
    \/ PreviewResolves /\ LiveBudget /\ AssistantIdle
    \/ PreviewRejects /\ LiveBudget /\ AssistantIdle
    \/ handleApproveCreative /\ LiveBudget /\ AssistantIdle
    \/ ApproveResolves /\ LiveBudget /\ AssistantIdle
    \/ ApproveRejects /\ LiveBudget /\ AssistantIdle
    \/ handleRegenerateVariant /\ LiveBudget /\ AssistantIdle
    \/ SingleResolves /\ LiveBudget /\ AssistantIdle
    \/ SingleRejects /\ LiveBudget /\ AssistantIdle
    \/ handleExport /\ LiveBudget /\ AssistantIdle
    \/ handleImport /\ LiveBudget /\ AssistantIdle
    \/ Reload /\ LiveBudget /\ AssistantIdle

SpecLive ==
    /\ Init
    /\ [][NextLive]_vars
    /\ WF_vars(Settles /\ LiveBudget /\ AssistantIdle)

\* =============================================================== properties
\* positions of the creatives in the collection
Present == IF adCreativesNull THEN {} ELSE 1..Len(adCreatives)

\* the calls in flight attributed to a variant
CallsFor(id, ratio) == {c \in calls : c.id = id /\ c.ratio = ratio}

\* the history of variant (id, ratio) in a collection that holds the creative
HistoryOf(list, id, ratio) ==
    list[CHOOSE i \in 1..Len(list) : list[i].id = id].variants[ratio].history

CursorOf(list, id, ratio) ==
    list[CHOOSE i \in 1..Len(list) : list[i].id = id].variants[ratio].currentHistoryIndex

KeysOf(list, id) ==
    DOMAIN list[CHOOSE i \in 1..Len(list) : list[i].id = id].variants

IdsOf(list) == {list[i].id : i \in 1..Len(list)}

IsPrefix(s, t) == Len(s) <= Len(t) /\ SubSeq(t, 1, Len(s)) = s

FullImage(tok) == [url |-> tok, isPreview |-> FALSE]

\* the calls that settled in this step
NewlySettled == settled' \ settled

\* C1: every variant (creative id, ratio) has at most one generation/edit call
\* in flight, in every reachable state.
C1_AtMostOneCallPerVariant ==
    \A i \in Present : \A k \in DOMAIN adCreatives[i].variants :
        Cardinality(CallsFor(adCreatives[i].id, k)) <= 1

\* C2: a variant's isGenerating flag is true exactly when a call for its
\* (creative, ratio) has been issued and has not settled yet.
C2_BusyIffCallInFlight ==
    \A i \in Present : \A k \in DOMAIN adCreatives[i].variants :
        adCreatives[i].variants[k].isGenerating <=> CallsFor(adCreatives[i].id, k) # {}

\* C3: right after the settlement (success or failure) of a call is applied the
\* flag of its variant is false, and the flag of a variant no call was ever
\* issued for is false.
C3_IdleBeforeFirstCall ==
    \A i \in Present : \A k \in DOMAIN adCreatives[i].variants :
        <<adCreatives[i].id, k>> \notin issued => ~adCreatives[i].variants[k].isGenerating

C3_SettlementClearsBusy ==
    \A r \in NewlySettled :
        ~adCreativesNull' =>
            \A j \in 1..Len(adCreatives') :
                (adCreatives'[j].id = r.id /\ r.ratio \in DOMAIN adCreatives'[j].variants)
                    => ~adCreatives'[j].variants[r.ratio].isGenerating

C3_BusyClearedOnSettle ==
    /\ []C3_IdleBeforeFirstCall
    /\ [][C3_SettlementClearsBusy]_vars

C3_Witness ==
    \E r \in settled : \E i \in Present :
        /\ ~r.ok
        /\ adCreatives[i].id = r.id
        /\ ~adCreatives[i].variants[r.ratio].isGenerating
        /\ \E q \in settled : q.ok /\ q.id = r.id

\* C4: regenerate and edit issue no call for a variant whose isGenerating flag
\* is true: every regenerate/edit call is issued for a variant that was idle.
C4_NoIssueWhileBusy ==
    [][\A c \in calls' \ calls :
          c.kind \in {"regen", "edit"} =>
              \A i \in Present :
                  adCreatives[i].id = c.id => ~adCreatives[i].variants[c.ratio].isGenerating
      ]_vars

C4_Witness ==
    \E i \in Present :
        /\ Rendered(adCreatives[i])
        /\ ActiveVariantOf(adCreatives[i]).isGenerating
        /\ adCreatives[i].status = "completed"
        /\ Cardinality(CallsFor(adCreatives[i].id, adCreatives[i].activeVariant)) = 1
        /\ \E c \in CallsFor(adCreatives[i].id, adCreatives[i].activeVariant) :
              c.kind \in {"regen", "edit"}

\* C5: approving a creative with R ratios issues exactly R full-quality calls,
\* one per key of its variants map, before any of them settles; every call of
\* an approval that succeeds appends its image to its own variant's history,
\* whatever the outcome of the others.
C5_ApprovalStep ==
    \A i \in Present :
        (/\ adCreatives[i].status = "preview_ready"
         /\ ~adCreativesNull'
         /\ i \in 1..Len(adCreatives')
         /\ adCreatives'[i].id = adCreatives[i].id
         /\ adCreatives'[i].status = "generating_full")
        => LET fresh == calls' \ calls
               keys == DOMAIN adCreatives[i].variants
           IN /\ calls \subseteq calls'
              /\ settled' = settled
              /\ Cardinality(fresh) = Cardinality(keys)
              /\ \A c \in fresh : c.kind = "approve" /\ c.id = adCreatives[i].id
              /\ \A k \in keys : Cardinality({c \in fresh : c.ratio = k}) = 1

C5_SuccessApplied ==
    \A r \in NewlySettled :
        (r.kind = "approve" /\ r.ok /\ r.present) =>
            /\ ~adCreativesNull'
            /\ r.id \in IdsOf(adCreatives')
            /\ HistoryOf(adCreatives', r.id, r.ratio)
                  = Append(HistoryOf(adCreatives, r.id, r.ratio), FullImage(r.tok))

C5_ApprovalFanOut == [][C5_ApprovalStep /\ C5_SuccessApplied]_vars

C5_Witness ==
    \E r, q \in settled : \E i \in Present :
        /\ r.kind = "approve" /\ q.kind = "approve"
        /\ r.group = q.group
        /\ r.ok /\ ~q.ok
        /\ q.pending > 0
        /\ adCreatives[i].id = r.id
        /\ FullImage(r.tok) \in Range(adCreatives[i].variants[r.ratio].history)

\* C6: the image of every full-quality call of an approval that succeeded while
\* its creative was in the collection is in the history of its own variant and
\* of no other variant, whatever the order in which the calls completed.
C6_BothResultsPresent ==
    \A r \in settled :
        (r.kind = "approve" /\ r.ok /\ r.present) =>
            \A i \in Present :
                adCreatives[i].id = r.id =>
                    \A k \in DOMAIN adCreatives[i].variants :
                        (FullImage(r.tok) \in Range(adCreatives[i].variants[k].history))
                            <=> (k = r.ratio)

C6_Witness ==
    \E r, q \in settled : \E i \in Present :
        /\ r.kind = "approve" /\ q.kind = "approve"
        /\ r.group = q.group
        /\ r.ok /\ q.ok
        /\ r.ratio # q.ratio
        /\ r.tok > q.tok
        /\ r.pending > 0
        /\ q.pending = 0
        /\ adCreatives[i].id = r.id
        /\ FullImage(r.tok) \in Range(adCreatives[i].variants[r.ratio].history)
        /\ FullImage(q.tok) \in Range(adCreatives[i].variants[q.ratio].history)

\* C7: every successful regenerate/edit call applied to a variant makes its
\* history one entry longer, the new entry last and the cursor on it; a step
\* that applies no successful call to a variant leaves its history as it is.
C7_SuccessAppends ==
    \A r \in NewlySettled :
        (r.kind \in {"regen", "edit"} /\ r.ok /\ r.present) =>
            LET before == HistoryOf(adCreatives, r.id, r.ratio)
                after == HistoryOf(adCreatives', r.id, r.ratio)
            IN /\ Len(after) = Len(before) + 1
               /\ SubSeq(after, 1, Len(before)) = before
               /\ after[Len(after)] = FullImage(r.tok)
               /\ CursorOf(adCreatives', r.id, r.ratio) = Len(after) - 1

C7_OtherStepsKeepLength ==
    (~adCreativesNull /\ ~adCreativesNull') =>
        \A id \in IdsOf(adCreatives) \cap IdsOf(adCreatives') :
            \A k \in KeysOf(adCreatives, id) \cap KeysOf(adCreatives', id) :
                (~\E r \in NewlySettled : r.ok /\ r.id = id /\ r.ratio = k)
                    => Len(HistoryOf(adCreatives', id, k)) = Len(HistoryOf(adCreatives, id, k))

C7_HistoryGrowsByOne == [][C7_SuccessAppends /\ C7_OtherStepsKeepLength]_vars

C7_Witness ==
    \E r, q \in settled : \E i \in Present :
        /\ r.kind \in {"regen", "edit"} /\ q.kind \in {"regen", "edit"}
        /\ r.tok # q.tok
        /\ r.ok /\ q.ok
        /\ r.id = q.id /\ r.ratio = q.ratio
        /\ adCreatives[i].id = r.id
        /\ Len(adCreatives[i].variants[r.ratio].history) >= 2
        /\ adCreatives[i].variants[r.ratio].currentHistoryIndex
              = Len(adCreatives[i].variants[r.ratio].history) - 1

\* C8: for every variant the cursor is -1 when the history is empty and a valid
\* index of the history otherwise.
C8_CursorValid ==
    \A i \in Present : \A k \in DOMAIN adCreatives[i].variants :
        LET v == adCreatives[i].variants[k] IN
        IF Len(v.history) = 0
        THEN v.currentHistoryIndex = -1
        ELSE v.currentHistoryIndex >= 0 /\ v.currentHistoryIndex < Len(v.history)

C8_Witness ==
    \E i \in Present : \E k \in DOMAIN adCreatives[i].variants :
        /\ Len(adCreatives[i].variants[k].history) >= 2
        /\ adCreatives[i].variants[k].currentHistoryIndex = 0

\* C9: a variant's history is append-only: in every step the history of a
\* variant that is in the collection before and after is a prefix of its
\* history after the step.
C9_AppendOnly ==
    [][(~adCreativesNull /\ ~adCreativesNull') =>
          \A id \in IdsOf(adCreatives) \cap IdsOf(adCreatives') :
              \A k \in KeysOf(adCreatives, id) \cap KeysOf(adCreatives', id) :
                  IsPrefix(HistoryOf(adCreatives, id, k), HistoryOf(adCreatives', id, k))
      ]_vars

C9_Witness ==
    \E i \in Present : \E k \in DOMAIN adCreatives[i].variants :
        LET h == adCreatives[i].variants[k].history IN
        /\ Len(h) >= 2
        /\ h[1].isPreview
        /\ ~h[2].isPreview
        /\ \E r \in settled : r.kind = "approve" /\ r.ok /\ h[2] = FullImage(r.tok)

\* C10: the key set of every creative's variants map is the ratio set requested
\* when the creative was created, in every reachable state.
C10_KeysAreRequested ==
    /\ \A i \in Present : <<adCreatives[i].id, DOMAIN adCreatives[i].variants>> \in requested
    /\ \A p, q \in requested : p[1] = q[1] => p[2] = q[2]

C10_Witness ==
    \E i \in Present :
        /\ adCreatives[i].status = "completed"
        /\ Cardinality(DOMAIN adCreatives[i].variants) = 2
        /\ \E r \in settled : r.id = adCreatives[i].id /\ r.kind \in {"regen", "edit"} /\ r.ok

\* the position of a status in the workflow of types.ts
StatusRank(status) ==
    CASE status = "generating_text" -> 0
      [] status = "generating_preview" -> 1
      [] status = "preview_ready" -> 2
      [] status = "generating_full" -> 3
      [] status = "completed" -> 4

StatusOf(list, id) == list[CHOOSE i \in 1..Len(list) : list[i].id = id].status

\* the creatives that are in the collection before and after the step
Staying ==
    IF adCreativesNull \/ adCreativesNull' THEN {}
    ELSE IdsOf(adCreatives) \cap IdsOf(adCreatives')

CreativeOf(list, id) == list[CHOOSE i \in 1..Len(list) : list[i].id = id]

\* the creatives a successful planning call adds: the step reads Date.now()
PlannedNow ==
    IF clock' = clock \/ adCreativesNull' THEN {}
    ELSE IdsOf(adCreatives') \ Ids

\* C12: the step in which a planning call returns adds all its creatives at
\* once, each in generating_preview with exactly one preview call issued for
\* its primary ratio (the first requested one), that variant busy with an
\* empty history and every other variant idle with an empty history; a batch
\* of Generate More leaves the creatives already in the collection as they are.
C12_PlanningStep ==
    clock' # clock =>
        \E p \in plans \ plans' :
            LET fresh == calls' \ calls IN
            /\ PlannedNow # {}
            /\ calls \subseteq calls'
            /\ Cardinality(fresh) = Cardinality(PlannedNow)
            /\ \A c \in fresh : c.kind \in {"preview", "previewMore"} /\ c.id \in PlannedNow
            /\ \A id \in PlannedNow :
                  LET creative == CreativeOf(adCreatives', id) IN
                  /\ creative.status = "generating_preview"
                  /\ creative.activeVariant = p.ratios[1]
                  /\ DOMAIN creative.variants = Range(p.ratios)
                  /\ Cardinality({c \in fresh : c.id = id}) = 1
                  /\ \A c \in fresh : c.id = id => c.ratio = p.ratios[1]
                  /\ \A k \in DOMAIN creative.variants :
                        /\ creative.variants[k].history = <<>>
                        /\ creative.variants[k].currentHistoryIndex = -1
                        /\ creative.variants[k].isGenerating <=> (k = p.ratios[1])
            /\ p.kind = "more" =>
                  \A id \in Ids : /\ id \in IdsOf(adCreatives')
                                  /\ CreativeOf(adCreatives', id) = CreativeOf(adCreatives, id)

C12_AllDraftsIssuedAtOnce == [][C12_PlanningStep]_vars

C12_Witness ==
    \E i, j \in Present :
        /\ i # j
        /\ adCreatives[i].id[1] = adCreatives[j].id[1]
        /\ adCreatives[i].status = "generating_preview"
        /\ adCreatives[j].status = "generating_preview"
        /\ Cardinality(DOMAIN adCreatives[i].variants) = 2
        /\ CallsFor(adCreatives[i].id, adCreatives[i].activeVariant) # {}
        /\ CallsFor(adCreatives[j].id, adCreatives[j].activeVariant) # {}

\* the full-quality calls of approvals in flight for a creative
ApproveCallsFor(id) == {c \in calls : c.kind = "approve" /\ c.id = id}

C14_FailedDraftStep ==
    \A r \in NewlySettled :
        (r.kind \in {"preview", "previewMore"} /\ ~r.ok /\ r.present) =>
            /\ ~adCreativesNull'
            /\ r.id \in IdsOf(adCreatives')
            /\ LET creative == CreativeOf(adCreatives', r.id) IN
               /\ creative.status = "preview_ready"
               /\ r.ratio = creative.activeVariant
               /\ creative.variants[r.ratio].history = <<>>
               /\ creative.variants[r.ratio].currentHistoryIndex = -1
               /\ ~creative.variants[r.ratio].isGenerating
               /\ ApproveEnabled(creative)

C14_FailedDraftStillReady == [][C14_FailedDraftStep]_vars

C14_Witness ==
    \E i \in Present : \E r \in settled :
        /\ r.kind \in {"preview", "previewMore"}
        /\ ~r.ok
        /\ r.id = adCreatives[i].id
        /\ adCreatives[i].status = "completed"
        /\ adCreatives[i].variants[r.ratio].history # <<>>
        /\ adCreatives[i].variants[r.ratio].history[1].isPreview = FALSE

\* C15: every failed preview, approval, regenerate or edit call leaves a
\* user-visible message in the error state when its failure is applied.
C15_FailureStep ==
    \A r \in NewlySettled : ~r.ok => error' # "null"

C15_FailureRecordsError == [][C15_FailureStep]_vars

\* C16: a creative whose preview call settles is in preview_ready right after,
\* whether or not the preview calls of other creatives are still in flight, and
\* the settlement of a preview call leaves every other creative as it was.
C16_DraftStep ==
    \A r \in NewlySettled :
        (r.kind \in {"preview", "previewMore"} /\ r.present) =>
            /\ ~adCreativesNull'
            /\ IdsOf(adCreatives') = Ids
            /\ StatusOf(adCreatives', r.id) = "preview_ready"
            /\ \A id \in Ids \ {r.id} :
                  CreativeOf(adCreatives', id) = CreativeOf(adCreatives, id)

C16_DraftsIndependent == [][C16_DraftStep]_vars

C16_Witness ==
    \E i, j \in Present : \E r \in settled :
        /\ i # j
        /\ r.kind \in {"preview", "previewMore"}
        /\ r.id = adCreatives[i].id
        /\ r.pending > 0
        /\ adCreatives[i].status = "preview_ready"
        /\ adCreatives[j].status = "generating_preview"
        /\ \E c \in CallsFor(adCreatives[j].id, adCreatives[j].activeVariant) :
              c.group = r.group /\ c.tok < r.tok

\* C17: applying the settlement of a call keyed (id, ratio) changes only that
\* variant of that creative, plus the creative's status for a preview call and
\* for the call that ends an approval; every other creative and every other
\* variant is left as it was. The calls of an approval are all for the approved
\* creative, and issuing them leaves every other creative as it was.
C17_SettlementFrame ==
    \A r \in NewlySettled :
        r.present =>
            /\ ~adCreativesNull'
            /\ IdsOf(adCreatives') = Ids
            /\ \A id \in Ids \ {r.id} :
                  CreativeOf(adCreatives', id) = CreativeOf(adCreatives, id)
            /\ LET before == CreativeOf(adCreatives, r.id)
                   after == CreativeOf(adCreatives', r.id)
               IN /\ after.activeVariant = before.activeVariant
                  /\ DOMAIN after.variants = DOMAIN before.variants
                  /\ \A k \in DOMAIN before.variants \ {r.ratio} :
                        after.variants[k] = before.variants[k]
                  /\ \/ after.status = before.status
                     \/ r.kind \in {"preview", "previewMore"}
                     \/ r.kind = "approve" /\ r.pending = 0 /\ after.status = "completed"

C17_ApprovalFrame ==
    \A c \in calls' \ calls :
        c.kind = "approve" =>
            /\ \A d \in calls' \ calls : d.id = c.id
            /\ ~adCreativesNull'
            /\ IdsOf(adCreatives') = Ids
            /\ \A id \in Ids \ {c.id} :
                  CreativeOf(adCreatives', id) = CreativeOf(adCreatives, id)

C17_KeyedUpdates == [][C17_SettlementFrame /\ C17_ApprovalFrame]_vars

C17_Witness ==
    \E i, j \in Present :
        /\ i # j
        /\ adCreatives[i].status = "completed"
        /\ adCreatives[j].status = "preview_ready"
        /\ Cardinality(DOMAIN adCreatives[i].variants) = 2
        /\ Cardinality(DOMAIN adCreatives[j].variants) = 2
        /\ nextCall = 4
        /\ \A k \in DOMAIN adCreatives[j].variants :
              /\ <<adCreatives[j].id, k>> \in issued <=> k = adCreatives[j].activeVariant
              /\ ~adCreatives[j].variants[k].isGenerating

\* C18: when the call of handleRegenerateVariant fails, applying the failure
\* sets the variant's isGenerating to false and leaves its history and cursor
\* as they were; the other variants of the creative, its status and active
\* variant, and all other creatives are unchanged.
C18_FailedRegenerateStep ==
    \A r \in NewlySettled :
        (r.kind = "regen" /\ ~r.ok /\ r.present) =>
            /\ ~adCreativesNull'
            /\ Len(adCreatives') = Len(adCreatives)
            /\ \A i \in Present :
                  IF adCreatives[i].id = r.id
                  THEN adCreatives'[i] =
                          [adCreatives[i] EXCEPT !.variants[r.ratio].isGenerating = FALSE]
                  ELSE adCreatives'[i] = adCreatives[i]

C18_FailedRegenerateKeepsHistory == [][C18_FailedRegenerateStep]_vars

C18_Witness ==
    \E i \in Present : \E r \in settled :
        /\ r.kind = "regen"
        /\ ~r.ok
        /\ r.id = adCreatives[i].id
        /\ Len(adCreatives[i].variants[r.ratio].history) >= 2
        /\ ~adCreatives[i].variants[r.ratio].isGenerating
        /\ \A q \in settled : (q.id = r.id /\ q.ratio = r.ratio) => q.tok <= r.tok
        /\ error = "api"

\* C19: for every variant that has no current image (empty history, or the
\* cursor on no entry) handleEditVariant issues no call and leaves the
\* collection, busy flags included, as it is.
C19_EditNeedsCurrentImage ==
    \A i \in Present : \A k \in DOMAIN adCreatives[i].variants :
        ~HasCurrentImage(adCreatives[i].variants[k]) =>
            /\ EditCalls(adCreatives[i], k) = {}
            /\ EditedCollection(adCreatives[i], k) = adCreatives

C19_Witness ==
    \E i \in Present :
        /\ adCreatives[i].status = "completed"
        /\ ~HasCurrentImage(ActiveVariantOf(adCreatives[i]))
        /\ ~ActiveVariantOf(adCreatives[i]).isGenerating
        /\ ~EditEnabled(adCreatives[i])
        /\ \E k \in DOMAIN adCreatives[i].variants :
              /\ EditCalls(adCreatives[i], k) # {}
              /\ EditedCollection(adCreatives[i], k) # adCreatives

\* C20: a step in which handleRegenerateVariant or handleEditVariant issues
\* its call, and a step in which such a call settles, leaves the status of
\* every creative as it was.
C20_SingleStep ==
    (\/ \E c \in calls' \ calls : c.kind \in {"regen", "edit"}
     \/ \E r \in NewlySettled : r.kind \in {"regen", "edit"})
    => /\ adCreativesNull' = adCreativesNull
       /\ ~adCreativesNull =>
             /\ IdsOf(adCreatives') = Ids
             /\ \A id \in Ids : StatusOf(adCreatives', id) = StatusOf(adCreatives, id)

C20_StatusUntouched == [][C20_SingleStep]_vars

C20_Witness ==
    \E i \in Present : \E r \in settled :
        /\ adCreatives[i].status = "generating_full"
        /\ r.kind \in {"regen", "edit"}
        /\ r.id = adCreatives[i].id
        /\ r.ok
        /\ FullImage(r.tok) \in Range(adCreatives[i].variants[r.ratio].history)
        /\ \E c \in ApproveCallsFor(adCreatives[i].id) : c.tok < r.tok

IsAdded(id) == id[3] = "added"

\* C22: the step in which the planning call of handleGenerateMore returns puts
\* the new creatives after the existing ones, which keep their positions and
\* contents, and keeps every call in flight; afterwards a call of a creative
\* that was there before still applies its result, and the settlement of a
\* preview call of the new batch changes no other creative.
C22_AppendStep ==
    (clock' # clock /\ ~adCreativesNull /\ \E p \in plans \ plans' : p.kind = "more") =>
        /\ ~adCreativesNull'
        /\ Len(adCreatives') > Len(adCreatives)
        /\ SubSeq(adCreatives', 1, Len(adCreatives)) = adCreatives
        /\ \A j \in (Len(adCreatives) + 1)..Len(adCreatives') : IsAdded(adCreatives'[j].id)
        /\ calls \subseteq calls'

C22_LaterSettlements ==
    \A r \in NewlySettled :
        (r.present /\ \E id \in Ids : IsAdded(id) /\ id # r.id) =>
            /\ ~adCreativesNull'
            /\ Len(adCreatives') = Len(adCreatives)
            /\ \A i \in Present :
                  /\ adCreatives'[i].id = adCreatives[i].id
                  /\ adCreatives[i].id # r.id => adCreatives'[i] = adCreatives[i]
            /\ r.ok => \E image \in Range(HistoryOf(adCreatives', r.id, r.ratio)) :
                          image.url = r.tok

C22_GenerateMoreAppends == [][C22_AppendStep /\ C22_LaterSettlements]_vars

C22_Witness ==
    \E i, j \in Present : \E r \in settled :
        /\ i < j
        /\ ~IsAdded(adCreatives[i].id)
        /\ IsAdded(adCreatives[j].id)
        /\ r.kind = "previewMore" /\ r.id = adCreatives[j].id /\ r.present
        /\ adCreatives[j].status = "preview_ready"
        /\ \E c \in CallsFor(adCreatives[i].id, adCreatives[i].activeVariant) :
              c.tok < r.tok

C24_PlanningFailureStep ==
    (clock' = clock /\ nSessionOps' = nSessionOps /\ ~crashed' /\ plans' # plans
       /\ plans' \subseteq plans) =>
        /\ calls' = calls
        /\ nextCall' = nextCall
        /\ adCreativesNull' = adCreativesNull
        /\ adCreatives' = adCreatives
        /\ error' # "null"
        /\ \A p \in plans \ plans' :
              IF p.kind = "initial" THEN ~isGeneratingInitial' ELSE ~isGeneratingMore'

C24_PlanningFailureCreatesNothing == [][C24_PlanningFailureStep]_vars

C24_Witness ==
    /\ ~adCreativesNull
    /\ Len(adCreatives) > 0
    /\ \A i \in Present : ~IsAdded(adCreatives[i].id)
    /\ nextPlan = 2
    /\ plans = {}
    /\ clock = 1
    /\ nSessionOps = 0
    /\ ~crashed
    /\ ~isGeneratingMore
    /\ error = "api"
    /\ calls # {}

\* ------------------------------------------------------------------ C25
\* C25: for each user turn the tool-call loop of handleSendMessage performs
\* at most a fixed number of iterations and then stops: no turn that has
\* completed MaxIterations iterations is still waiting for another response
\* of the backend (every turn in `turns` is waiting for one).
C25_LoopBounded ==
    \A t \in turns : t.iterations < MaxIterations

\* ------------------------------------------------------------------ C26
\* C26: after the loop has handled a response, every brief field that the
\* response's update_form_fields calls gave a text holds exactly that text
\* (replaced, not concatenated with what the field held before).
C26_FieldsReplaced ==
    \A name \in DOMAIN applied :
        Len(applied[name]) > 0 => FormFields[name] = applied[name]

\* ------------------------------------------------------------------ C27
\* a step in which the loop of handleSendMessage handles a response
IsLoopStep ==
    \E t \in turns :
        /\ t.kind = "user"
        /\ turns' = (turns \ {t}) \cup {NextIteration(t)}

\* C27: a response whose update_form_fields calls name only some of the brief
\* fields leaves every field they do not name as it was.
C27_UnnamedFieldsUntouched ==
    [][IsLoopStep =>
          \A name \in FieldNames \ DOMAIN applied' :
              FormFields'[name] = FormFields[name]]_vars

\* an update naming only the objective was applied while the context the user
\* typed and the other fields stayed
C27_Witness ==
    /\ DOMAIN applied = {"objective"}
    /\ objective = <<"b">>
    /\ context = <<"a">>
    /\ \E t \in turns : t.iterations > 0

\* ------------------------------------------------------------------ C30
\* what the summary shown may be after the summarization call has settled
SummaryOutcomes ==
    {<<Trim(text)>> : text \in SummaryTexts} \cup {<<SummaryPlaceholder>>}

\* C30: whenever the reference-summarization call of a generation settles,
\* by success or by failure, the generation goes on to its planning call, no
\* error is recorded, the run stays in progress, and the summary shown is the
\* text of the response or, on failure, the placeholder.
C30_SummaryNeverAborts ==
    [][\A p \in plans \ plans' :
          p.stage = "summary" =>
             /\ \E q \in plans' : q.pid = p.pid /\ q.stage = "planning"
             /\ error' = error
             /\ isGeneratingInitial' = isGeneratingInitial
             /\ urlSummaryForDisplay' \in SummaryOutcomes]_vars

\* creatives were generated although the summarization call had failed
C30_Witness ==
    /\ urlSummaryForDisplay = <<SummaryPlaceholder>>
    /\ ~adCreativesNull
    /\ Len(adCreatives) > 0
    /\ error = "null"

\* ------------------------------------------------------------------ C28
\* the document read by the step into this state, when it was recognised
RestoredDoc == docRead[1].doc

\* C28: after handleImport or the load effect has restored a snapshot, every
\* variant that the snapshot stored with one embedded image and no history has
\* a history of exactly that image (not a draft) with the cursor on it, and
\* every creative the snapshot stored without a status is completed.
C28_LegacyMigrated ==
    (docRead # <<>> /\ Recognised(RestoredDoc)) =>
        /\ ~adCreativesNull
        /\ Len(adCreatives) = Len(RestoredDoc.adCreatives)
        /\ \A i \in 1..Len(RestoredDoc.adCreatives) :
              LET stored == RestoredDoc.adCreatives[i] IN
              /\ ~stored.hasStatus => adCreatives[i].status = "completed"
              /\ DOMAIN adCreatives[i].variants = DOMAIN stored.variants
              /\ \A k \in DOMAIN stored.variants :
                    (stored.variants[k].hasImage /\ ~stored.variants[k].hasHistory) =>
                        /\ adCreatives[i].variants[k].history =
                              <<[url |-> stored.variants[k].image, isPreview |-> FALSE]>>
                        /\ adCreatives[i].variants[k].currentHistoryIndex = 0

\* the load effect has just restored a legacy snapshot with an embedded image
C28_Witness ==
    /\ docRead # <<>>
    /\ docRead[1].by = "load"
    /\ \E i \in 1..Len(RestoredDoc.adCreatives) :
          /\ ~RestoredDoc.adCreatives[i].hasStatus
          /\ \E k \in DOMAIN RestoredDoc.adCreatives[i].variants :
                RestoredDoc.adCreatives[i].variants[k].hasImage

\* ------------------------------------------------------------------ C29
\* the step is handleImport reading a document it does not recognise
RejectedImport ==
    /\ docRead' # <<>>
    /\ docRead'[1].by = "import"
    /\ docRead'[1].doc.missing # {}

\* C29: handleImport of a document that does not parse or lacks adCreatives,
\* formState or totalCost records the import error and changes neither the
\* collection, the cost counter, the summary text, the brief and settings nor
\* the stored session, and issues no remote call.
C29_InvalidImportRejected ==
    [][RejectedImport =>
          /\ error' = "import"
          /\ UNCHANGED <<adCreatives, adCreativesNull, totalCost, urlSummaryForDisplay,
                         objective, audienceAction, keyMessage, context, aspectRatios,
                         briefOk, isGeneratingInitial, isGeneratingMore, localStorage,
                         plans, calls, nextPlan, nextCall>>]_vars

\* a session with creatives and cost has just rejected a document without totalCost
C29_Witness ==
    /\ docRead # <<>>
    /\ docRead[1].by = "import"
    /\ docRead[1].doc.missing = {"totalCost"}
    /\ error = "import"
    /\ ~adCreativesNull
    /\ Len(adCreatives) > 0
    /\ totalCost > 0

\* ------------------------------------------------------------------ C31
\* a list without the element at position i
WithoutPosition(list, i) ==
    [j \in 1..(Len(list) - 1) |-> IF j < i THEN list[j] ELSE list[j + 1]]

\* the step is a discard: the set of ids changes and the step is neither the
\* arrival of a planned batch nor a session-level step
DiscardStep ==
    /\ Ids' # Ids
    /\ plans' = plans
    /\ nSessionOps' = nSessionOps

\* the step is the settlement of an image call (applied, or thrown by its updater)
ImageSettlementStep ==
    /\ calls' # calls
    /\ calls' \subseteq calls
    /\ nSessionOps' = nSessionOps

\* C31: handleDiscardCreative removes exactly one creative and keeps the others,
\* contents and order; the settlement of a call of a creative that is no longer
\* in the collection changes nothing in the collection; and no settlement
\* changes which creatives the collection holds, or their order.
C31_DiscardRemovesOne ==
    [][/\ DiscardStep =>
            \E i \in 1..Len(adCreatives) :
                /\ adCreatives' = WithoutPosition(adCreatives, i)
                /\ adCreativesNull' = (Len(adCreatives) = 1)
       /\ ImageSettlementStep =>
            /\ adCreativesNull' = adCreativesNull
            /\ Len(adCreatives') = Len(adCreatives)
            /\ \A i \in 1..Len(adCreatives) : adCreatives'[i].id = adCreatives[i].id
            /\ \A c \in calls \ calls' :
                  c.id \notin Ids => adCreatives' = adCreatives]_vars

\* the first of two creatives was discarded while its regenerate call was in
\* flight, and the call has settled with the second creative still there
C31_Witness ==
    /\ nSessionOps = 0
    /\ ~adCreativesNull
    /\ Len(adCreatives) = 1
    /\ adCreatives[1].id[2] = 1
    /\ \E s \in settled : s.kind = "regen" /\ s.ok /\ ~s.present

\* ------------------------------------------------------------------ C32
\* the step handles the response of a planning call
PlanningRead ==
    /\ docRead' # <<>>
    /\ docRead'[1].by = "planning"

ReadConcepts == docRead'[1].doc

ReadRatios == docRead'[1].ratios

\* the concept carries no prompt for the ratio
Omits(tc, ratio) == ratio \notin DOMAIN tc.variantPrompts

\* some concept of the response handled in this step lacks the prompt of a
\* requested ratio
OmitsSome ==
    \E i \in 1..Len(ReadConcepts) : \E r \in Range(ReadRatios) : Omits(ReadConcepts[i], r)

\* the step has put one new creative per concept at the end of the collection,
\* each with one variant per requested ratio that holds the planner's prompt,
\* or the placeholder where the prompt is missing or empty, and has issued one
\* preview call per concept
BatchCreated ==
    LET n == Len(ReadConcepts) IN
    /\ ~adCreativesNull'
    /\ Len(adCreatives') >= n
    /\ Cardinality(calls' \ calls) = n
    /\ \A i \in 1..n :
          LET c == adCreatives'[Len(adCreatives') - n + i]
              tc == ReadConcepts[i]
          IN
          /\ c.id \notin Ids
          /\ c.status = "generating_preview"
          /\ DOMAIN c.variants = Range(ReadRatios)
          /\ \A r \in Range(ReadRatios) :
                c.variants[r].imagePrompt =
                    IF Omits(tc, r) \/ tc.variantPrompts[r] = <<>>
                    THEN NoPrompt(r)
                    ELSE tc.variantPrompts[r]

\* the step has created nothing and recorded the failure
BatchFailed ==
    /\ UNCHANGED <<adCreatives, adCreativesNull, calls, nextCall>>
    /\ error' = "api"

\* C32: when a successful planning response whose concepts each carry their
\* variantPrompts lacks the prompt of a requested ratio, every creative of the
\* batch is still created, with one variant per requested ratio and the
\* placeholder text as the prompt of the omitted ones. (A concept without any
\* variantPrompts object is not a prompt left out of the map: building the
\* batch then throws and the response is handled as a failed planning call.)
C32_OmittedKeyKeepsBatch ==
    [][(PlanningRead /\ OmitsSome) =>
          IF \A i \in 1..Len(ReadConcepts) : ReadConcepts[i].hasVariantPrompts
          THEN BatchCreated
          ELSE BatchFailed]_vars

\* a response of two concepts, the first without the prompt of the second
\* ratio, has just been turned into two creatives
C32_Witness ==
    /\ docRead # <<>>
    /\ docRead[1].by = "planning"
    /\ Len(docRead[1].doc) = 2
    /\ Len(docRead[1].ratios) = 2
    /\ docRead[1].doc[1].hasVariantPrompts
    /\ DOMAIN docRead[1].doc[1].variantPrompts = {docRead[1].ratios[1]}
    /\ docRead[1].doc[2] = CompleteConcept(docRead[1].ratios)
    /\ ~adCreativesNull
    /\ Len(adCreatives) = 2
    /\ adCreatives[1].variants[docRead[1].ratios[2]].imagePrompt
           = NoPrompt(docRead[1].ratios[2])
    /\ adCreatives[2].variants[docRead[1].ratios[2]].imagePrompt = PlannedPrompt

\* ------------------------------------------------------------------ C33
\* C33: when a regenerate, edit or approval call settles while the collection
\* is null, the step leaves the collection, the cost counter, the error and the
\* generating flags as they were, and no updater throws.
C33_NullCollectionSettlesQuietly ==
    [][(/\ ImageSettlementStep
        /\ adCreativesNull
        /\ \E c \in calls \ calls' : c.kind \in {"regen", "edit", "approve"}) =>
          /\ ~crashed'
          /\ UNCHANGED <<adCreatives, adCreativesNull, totalCost, error,
                         isGeneratingInitial, isGeneratingMore>>]_vars

\* ------------------------------------------------------------------ C34
\* ids a creative can have in a behaviour of SpecLive
LiveIds ==
    {<<t, index, suffix>> : t \in 0..MaxLivePlans, index \in 0..(MaxConcepts - 1),
                            suffix \in {""}}

LiveRatios == Range(DefaultAspectRatios) \cup Range(ClearedAspectRatios)

\* the creative is in the collection with the status
HasStatus(id, status) ==
    \E i \in Present : adCreatives[i].id = id /\ adCreatives[i].status = status

\* the variant is in the collection and busy
IsBusy(id, ratio) ==
    \E i \in Present :
        /\ adCreatives[i].id = id
        /\ ratio \in DOMAIN adCreatives[i].variants
        /\ adCreatives[i].variants[ratio].isGenerating

\* C34: when every issued call eventually settles, a creative in
\* generating_preview eventually leaves that status, a creative in
\* generating_full eventually leaves that status, and a busy variant
\* eventually is not busy (or is no longer in the collection), from every
\* reachable state, restored and imported sessions included.
C34_GenerationCompletes ==
    \A id \in LiveIds :
        /\ HasStatus(id, "generating_preview") ~> ~HasStatus(id, "generating_preview")
        /\ HasStatus(id, "generating_full") ~> ~HasStatus(id, "generating_full")
        /\ \A ratio \in LiveRatios : IsBusy(id, ratio) ~> ~IsBusy(id, ratio)

\* ------------------------------------------------------------------ C35
\* ids of the creatives of the snapshot in local storage
StoredIds ==
    IF Len(localStorage) = 0 THEN {}
    ELSE {localStorage[1].adCreatives[i].id : i \in 1..Len(localStorage[1].adCreatives)}

\* C35: after a discard the snapshot in local storage does not hold the
\* discarded creative, also when it was the last one of the collection.
C35_DiscardedNotStored ==
    [][DiscardStep => (Ids \ Ids') \cap StoredIds' = {}]_vars

\* ------------------------------------------------------------------ C36
\* the step is handleImport reading a document that handleExport wrote
ImportsExport ==
    /\ docRead' # <<>>
    /\ docRead'[1].by = "import"
    /\ docRead'[1].doc \in Range(exportFiles)

\* the text of a summary as the app reads it (urlSummaryForDisplay || "")
SummaryText(summary) == IF summary = <<>> THEN <<>> ELSE summary[1]

DraftPositions(history) == {j \in 1..Len(history) : history[j].isPreview}

\* a draft call for the variant has resolved
DraftResolvedFor(id, ratio) ==
    \E s \in settled :
        s.kind \in {"preview", "previewMore"} /\ s.ok /\ s.id = id /\ s.ratio = ratio

\* every draft entry is the first entry of a variant whose draft call resolved
DraftsOnlyFirst ==
    \A i \in Present : \A k \in DOMAIN adCreatives[i].variants :
        LET drafts == DraftPositions(adCreatives[i].variants[k].history) IN
        /\ drafts \subseteq {1}
        /\ drafts # {} => DraftResolvedFor(adCreatives[i].id, k)

\* every draft call is issued for the first of the ratios its batch was planned
\* for, which is the active ratio of the new creative
DraftCallsArePrimary ==
    \A c \in calls' \ calls :
        c.kind \in {"preview", "previewMore"} =>
            /\ \E p \in plans \ plans' : c.ratio = p.ratios[1]
            /\ CreativeOf(adCreatives', c.id).activeVariant = c.ratio

\* C37: an entry flagged isPreview occurs only at index 0 of the primary-ratio
\* variant of a creative: the entries appended by approval, regenerate and edit
\* and the migrated images of the previous schema are not flagged, and a
\* variant of another ratio never holds a flagged entry.
C37_DraftOnlyFirstOfPrimary ==
    /\ []DraftsOnlyFirst
    /\ [][DraftCallsArePrimary]_vars

\* an approved creative of two ratios: the primary variant holds its draft and
\* then the full image, the other variant the full image alone
C37_Witness ==
    \E i \in Present :
        LET c == adCreatives[i] IN
        /\ c.status = "completed"
        /\ Cardinality(DOMAIN c.variants) = 2
        /\ \E k \in DOMAIN c.variants :
              /\ Len(c.variants[k].history) = 2
              /\ DraftPositions(c.variants[k].history) = {1}
              /\ \A other \in DOMAIN c.variants \ {k} :
                    /\ Len(c.variants[other].history) = 1
                    /\ DraftPositions(c.variants[other].history) = {}

\* ------------------------------------------------------------------ C38
\* C38: a user message is sent to the backend only while no turn is in
\* progress (isTyping is false), so at most one turn is in progress at a time.
C38_OneTurnAtATime ==
    [][nextTurn' # nextTurn => (~isTyping /\ Cardinality(turns') = 1)]_vars

====
